---- MODULE Spec2Model ----
(***************************************************************************)
(* Model of the Visual Script code generator                               *)
(* (src/src/lib/visual-script-utils.ts): the parameter resolver            *)
(* _processBlockParams, the recursive tree compiler generateCodeRecursive  *)
(* and the entry point generatePythonCode, run on block trees drawn from   *)
(* a bounded set.                                                          *)
(*                                                                         *)
(* A JavaScript string is a sequence of characters.  A character is one    *)
(* TLA+ string: a blank, a line break, a double quote, a backslash, or an  *)
(* opaque run of ordinary text (one that holds none of the four and does   *)
(* not begin or end with white space).                                     *)
(***************************************************************************)
EXTENDS Integers, Sequences, FiniteSets, TLC

\* ------------------------------------------------------------------ bounds
MaxBlocks == 3
MaxSessionBlocks == 2
MaxCalls == 3
MaxEdits == 4

\* ------------------------------------------------------------------- state
\* canvasBlocks: the block tree of the page, handed to generatePythonCode
\* generatedCode: the string the last call returned
\* run: the last call (threw, text, lines, log)
\* calls: the number of calls of generatePythonCode made so far
\* stale: canvasBlocks has changed since the last call
\* history: the calls made so far (tree, outcome, symbols that were in scope)
\* resolving: the arguments of a call of _processBlockParams
\* processed: what that call returned
\* created: the number of block instances created so far
\* event: the last call of a handler of the page: its arguments and the tree
\*        it was called on
VARIABLES canvasBlocks, generatedCode, run, calls, stale, history, resolving, processed, created, event

vars == <<canvasBlocks, generatedCode, run, calls, stale, history, resolving, processed, created, event>>

\* -------------------------------------------------------------- characters
SP == " "
NL == "\n"
DQ == "\""
BS == "\\"
WhiteSpace == {SP, NL}
\* Runs of digits, and runs of digits with one decimal point in them.
Digits == {"5", "100"}
Decimals == {"0.25"}

\* A value stored in a parameter map that is not a string: the number 5.
NotAString == <<"(number 5)">>

\* typeof v === 'string'
IsString(v) == v # NotAString

\* String(v), as a template literal interpolates it.
Interpolate(v) == IF IsString(v) THEN v ELSE <<"5">>

\* `v && ...`: JavaScript truthiness of a stored value.
Truthy(v) == IF IsString(v) THEN v # <<>> ELSE TRUE

RECURSIVE TrimStart(_)
TrimStart(s) ==
  IF s # <<>> /\ Head(s) \in WhiteSpace THEN TrimStart(Tail(s)) ELSE s

RECURSIVE TrimEnd(_)
TrimEnd(s) ==
  IF s # <<>> /\ s[Len(s)] \in WhiteSpace
    THEN TrimEnd(SubSeq(s, 1, Len(s) - 1))
    ELSE s

\* String.prototype.trim
Trim(s) == TrimEnd(TrimStart(s))

\* String.prototype.replace(/c/g, r) for a one-character pattern c
RECURSIVE ReplaceAll(_, _, _)
ReplaceAll(s, c, r) ==
  IF s = <<>> THEN <<>>
  ELSE (IF Head(s) = c THEN r ELSE <<Head(s)>>) \o ReplaceAll(Tail(s), c, r)

\* String.prototype.replace(/"""/g, r)
RECURSIVE ReplaceTripleQuote(_, _)
ReplaceTripleQuote(s, r) ==
  IF Len(s) < 3 THEN s
  ELSE IF s[1] = DQ /\ s[2] = DQ /\ s[3] = DQ
    THEN r \o ReplaceTripleQuote(SubSeq(s, 4, Len(s)), r)
    ELSE <<Head(s)>> \o ReplaceTripleQuote(Tail(s), r)

\* String.prototype.toUpperCase, on the method names the model uses
ToUpperCase(s) ==
  IF s = <<"post">> THEN <<"POST">>
  ELSE IF s = <<"get">> THEN <<"GET">>
  ELSE s

\* Variant: no text is taken for a number.
isNumeric_Never(str) == FALSE

\* Number(str) is a finite number and str is not blank: the text is made of
\* runs of digits, with at most one decimal point.
isNumeric(str) ==
  IF ~IsString(str) THEN FALSE
  ELSE /\ Trim(str) # <<>>
       /\ \A k \in 1..Len(Trim(str)) : Trim(str)[k] \in Digits \cup Decimals
       /\ Cardinality({k \in 1..Len(Trim(str)) : Trim(str)[k] \in Decimals}) <= 1

formatPythonStringLiteral(value) ==
  <<DQ>> \o ReplaceAll(ReplaceAll(ReplaceAll(value, BS, <<BS, BS>>),
                                  DQ, <<BS, DQ>>),
                       NL, <<BS, "n">>) \o <<DQ>>

formatPythonMultilineStringLiteral(value) ==
  <<DQ, DQ, DQ>>
    \o ReplaceTripleQuote(ReplaceAll(value, BS, <<BS, BS>>), <<BS, DQ, DQ, DQ>>)
    \o <<DQ, DQ, DQ>>

\* ---------------------------------------------------------------- registry
\* ParameterDefinition: id, type, defaultValue
Param(id, type, defaultValue) ==
  [id |-> id, type |-> type, defaultValue |-> defaultValue]

\* Block: id, name, parameters, canHaveChildren (codeTemplate is the
\* operator codeTemplate below, selected by id)
BlockDef(id, name, parameters, canHaveChildren) ==
  [id |-> id, name |-> name, parameters |-> parameters,
   canHaveChildren |-> canHaveChildren]

AVAILABLE_BLOCKS == <<
  BlockDef("print_message", "Print Message",
           <<Param("message", "string", <<"Hello World">>)>>, FALSE),
  BlockDef("loop_range", "Loop (Range)",
           <<Param("count", "number", <<"5">>),
             Param("loopVariable", "string", <<"i">>)>>, TRUE),
  BlockDef("define_variable", "Define Variable",
           <<Param("variableName", "string", <<"my_var">>),
             Param("value", "string", <<DQ, DQ>>)>>, FALSE),
  BlockDef("custom_function", "Custom Function",
           <<Param("functionName", "string", <<"my_custom_function">>),
             Param("args", "string", <<>>),
             Param("outputVar", "string", <<>>)>>, FALSE),
  BlockDef("pandas_df_head", "Show DataFrame Head (Pandas)",
           <<Param("dataFrameVariable", "string", <<"df">>),
             Param("numRows", "number", <<"5">>)>>, FALSE) >>

\* A registry entry supplied by a caller: a nestable block type whose
\* codeTemplate throws.
FailingBlock ==
  BlockDef("failing_block", "Failing Block",
           <<Param("message", "string", <<"Hello World">>)>>, TRUE)

\* A caller's read_file entry whose template throws: a block with an output
\* (variableName of read_file) that fails to generate.
FailingReader ==
  BlockDef("read_file", "Read File",
           <<Param("variableName", "string", <<"file_content">>)>>, FALSE)

\* The availableBlocks argument of generatePythonCode.
Registry == AVAILABLE_BLOCKS \o <<FailingBlock, FailingReader>>

\* availableBlocks.find(b => b.id === blockTypeId); <<>> when there is none
FindBlock(availableBlocks, blockTypeId) ==
  LET hits == {k \in 1..Len(availableBlocks) :
                 availableBlocks[k].id = blockTypeId}
  IN IF hits = {} THEN <<>>
     ELSE <<availableBlocks[CHOOSE k \in hits : \A j \in hits : k <= j]>>

\* blockDefinition.parameters.find(p => p.id === paramId)
FindParam(blockDefinition, paramId) ==
  LET ps == blockDefinition.parameters
  IN ps[CHOOSE k \in 1..Len(ps) : ps[k].id = paramId]

ParamIds(blockDefinition) ==
  {blockDefinition.parameters[k].id :
     k \in 1..Len(blockDefinition.parameters)}

\* ---------------------------------------------------------------- resolver
\* Variant: the loop variable and the output of a function call are not
\* among the names passed as they are.
directVariableNameParams_Fewer ==
  {"variableName", "responseVariable", "dataFrameVariable", "driverVariable",
   "elementVariable", "textVariable"}

directVariableNameParams ==
  {"variableName", "loopVariable", "responseVariable", "outputVar",
   "dataFrameVariable", "driverVariable", "elementVariable", "textVariable"}

\* Variant: what is stored is trimmed as it is read.
StoredValue_Trimmed(rawParams, paramDef) ==
  LET v == IF paramDef.id \in DOMAIN rawParams
             THEN rawParams[paramDef.id]
             ELSE paramDef.defaultValue
  IN IF IsString(v) THEN Trim(v) ELSE v

\* rawParams[paramId] ?? paramDef.defaultValue
StoredValue(rawParams, paramDef) ==
  IF paramDef.id \in DOMAIN rawParams
    THEN rawParams[paramDef.id]
    ELSE paramDef.defaultValue

\* Variant: the value is not trimmed.
RawValue_Untrimmed(rawParams, paramDef) == StoredValue(rawParams, paramDef)

\* ... followed by: if (typeof rawValue === 'string') rawValue = rawValue.trim()
RawValue(rawParams, paramDef) ==
  LET v == StoredValue(rawParams, paramDef)
  IN IF IsString(v) THEN Trim(v) ELSE v

Ok(v) == [threw |-> FALSE, value |-> v]
TypeError == [threw |-> TRUE, value |-> <<>>]

\* formatPythonStringLiteral(rawValue): value.replace throws on a non-string
StringLiteral(rawValue) ==
  IF IsString(rawValue) THEN Ok(formatPythonStringLiteral(rawValue))
  ELSE TypeError

MultilineLiteral(rawValue) ==
  IF IsString(rawValue) THEN Ok(formatPythonMultilineStringLiteral(rawValue))
  ELSE TypeError

bodyRelevantMethods == {<<"POST">>, <<"PUT">>, <<"PATCH">>}

\* The body of the for loop of _processBlockParams for one paramDef.
ProcessParam(rawParams, paramDef, definedVariables, blockDefinition) ==
  LET blockId == blockDefinition.id
      paramId == paramDef.id
      rawValue == RawValue(rawParams, paramDef)
  IN IF paramId \in directVariableNameParams THEN Ok(rawValue)
     ELSE IF blockId = "custom_function" /\ paramId = "args"
       THEN Ok(StoredValue(rawParams, paramDef))
     ELSE IF blockId = "pyautogui_click" /\ paramId \in {"x_coord", "y_coord"}
       THEN IF rawValue = <<>> \/ rawValue = <<DQ, DQ>> THEN Ok(<<DQ, DQ>>)
            ELSE IF rawValue \in definedVariables THEN Ok(rawValue)
            ELSE IF isNumeric(rawValue) THEN Ok(rawValue)
            ELSE StringLiteral(rawValue)
     ELSE IF blockId = "pyautogui_screenshot" /\ paramId = "filename"
       THEN IF rawValue = <<>> \/ rawValue = <<DQ, DQ>> THEN Ok(<<DQ, DQ>>)
            ELSE IF rawValue \in definedVariables THEN Ok(rawValue)
            ELSE StringLiteral(rawValue)
     ELSE IF blockId = "define_variable" /\ paramId = "value"
       THEN IF rawValue \in definedVariables THEN Ok(rawValue)
            ELSE IF isNumeric(rawValue) THEN Ok(rawValue)
            ELSE StringLiteral(rawValue)
     ELSE IF paramDef.type = "textarea"
       THEN IF rawValue \in definedVariables THEN Ok(rawValue)
            ELSE IF blockId = "http_request" /\ paramId = "body"
              THEN LET method ==
                         StoredValue(rawParams,
                                     FindParam(blockDefinition, "method"))
                   IN IF ~IsString(method) THEN TypeError
                      ELSE IF ToUpperCase(method) \notin bodyRelevantMethods
                        THEN Ok(<<"None">>)
                      ELSE IF ~IsString(rawValue) THEN TypeError
                      ELSE IF Trim(rawValue) # <<>>
                        THEN MultilineLiteral(rawValue)
                      ELSE Ok(<<"None">>)
            ELSE MultilineLiteral(rawValue)
     ELSE IF rawValue \in definedVariables THEN Ok(rawValue)
     ELSE IF paramDef.type \in {"string", "password", "select"}
       THEN StringLiteral(rawValue)
     ELSE IF paramDef.type = "number"
       THEN IF isNumeric(rawValue) THEN Ok(rawValue)
            ELSE StringLiteral(rawValue)
     ELSE StringLiteral(rawValue)

\* _processBlockParams: the map of processed parameters, or the TypeError
\* that leaves the loop.
_processBlockParams(rawParams, paramDefinitions, definedVariables, blockDefinition) ==
  LET one(k) == ProcessParam(rawParams, paramDefinitions[k],
                             definedVariables, blockDefinition)
      ids == {paramDefinitions[k].id : k \in 1..Len(paramDefinitions)}
      at(id) == CHOOSE k \in 1..Len(paramDefinitions) :
                  paramDefinitions[k].id = id
  IN IF \E k \in 1..Len(paramDefinitions) : one(k).threw
       THEN [threw |-> TRUE, params |-> <<>>]
       ELSE [threw |-> FALSE,
             params |-> [id \in ids |-> one(at(id)).value]]

\* --------------------------------------------------------------- templates
Text(t) == [threw |-> FALSE, text |-> t]
TemplateError == [threw |-> TRUE, text |-> <<>>]

\* blockDefinition.codeTemplate(params)
codeTemplate(blockDefinition, params) ==
  LET id == blockDefinition.id
      P(x) == Interpolate(params[x])
  IN IF id = "print_message"
       THEN Text(<<"print(">> \o P("message") \o <<")">>)
     ELSE IF id = "loop_range"
       THEN Text(<<"for ">> \o P("loopVariable") \o <<" in range(">>
                   \o P("count") \o <<"):">>)
     ELSE IF id = "define_variable"
       THEN Text(P("variableName") \o <<" = ">> \o P("value"))
     ELSE IF id = "custom_function"
       THEN LET args == IF Truthy(params["args"]) THEN P("args") ELSE <<>>
                funcCall == P("functionName") \o <<"(">> \o args \o <<")">>
                out == params["outputVar"]
            IN IF Truthy(out) /\ ~IsString(out) THEN TemplateError
               ELSE IF Truthy(out) /\ Trim(out) # <<DQ, DQ>> /\ Trim(out) # <<>>
                 THEN Text(out \o <<" = ">> \o funcCall)
               ELSE Text(funcCall)
     ELSE IF id = "pandas_df_head"
       THEN Text(<<"# Ensure 'pandas' is installed: pip install pandas", NL,
                   "# import pandas as pd # Uncomment", NL,
                   "print(f", DQ, "First {">> \o P("numRows")
                 \o <<"} rows of DataFrame '">> \o P("dataFrameVariable")
                 \o <<"':", DQ, ")", NL, "print(">> \o P("dataFrameVariable")
                 \o <<".head(">> \o P("numRows") \o <<"))">>)
     ELSE TemplateError

\* String.prototype.split('\n')
RECURSIVE Split(_)
Split(text) ==
  IF \A k \in 1..Len(text) : text[k] # NL THEN <<text>>
  ELSE LET k == CHOOSE i \in 1..Len(text) :
                  text[i] = NL /\ \A j \in 1..(i - 1) : text[j] # NL
       IN <<SubSeq(text, 1, k - 1)>> \o Split(SubSeq(text, k + 1, Len(text)))

\* Variant: the lines are joined by blanks.
RECURSIVE Join_Blanks(_)
Join_Blanks(ls) ==
  IF ls = <<>> THEN <<>>
  ELSE IF Len(ls) = 1 THEN ls[1]
  ELSE ls[1] \o <<SP>> \o Join_Blanks(Tail(ls))

\* Array.prototype.join('\n')
RECURSIVE Join(_)
Join(ls) ==
  IF ls = <<>> THEN <<>>
  ELSE IF Len(ls) = 1 THEN ls[1]
  ELSE ls[1] \o <<NL>> \o Join(Tail(ls))

\* ---------------------------------------------------------------- compiler
IndentUnit == "    "

\* '    '.repeat(indentLevel)
Indent(indentLevel) == [k \in 1..indentLevel |-> IndentUnit]

\* An element of a `lines` array.  text is the string; by and kind record
\* which block instance pushed it and at which statement ("" / "header" for
\* the lines of generatePythonCode itself).
Line(text, by, kind) == [text |-> text, by |-> by, kind |-> kind]

varDefiningParamIds ==
  {"variableName", "responseVariable", "outputVar", "dataFrameVariable",
   "driverVariable", "elementVariable", "textVariable"}

\* The condition under which the block's parameter pId is one of its outputs.
IsOutputParam(pId, blockId) ==
  \/ pId = "variableName"
       /\ blockId \in {"define_variable", "read_file",
                       "pyautogui_screenshot", "pandas_read_csv"}
  \/ pId = "responseVariable" /\ blockId = "http_request"
  \/ pId = "outputVar" /\ blockId = "custom_function"
  \/ pId = "dataFrameVariable" /\ blockId = "pandas_read_csv"
  \/ pId = "driverVariable" /\ blockId = "selenium_initialize_driver"
  \/ pId = "elementVariable" /\ blockId = "selenium_find_element"
  \/ pId = "textVariable" /\ blockId = "selenium_get_text"

\* varName && varName.trim() !== '' && varName.trim() !== '""'
IsUsableName(varName) ==
  Truthy(varName) /\ Trim(varName) # <<>> /\ Trim(varName) # <<DQ, DQ>>

\* varName.trim() is evaluated on a truthy value that is not a string
NameCheckThrows(blockDefinition, processedParams) ==
  \E pId \in ParamIds(blockDefinition) \cap varDefiningParamIds :
    Truthy(processedParams[pId]) /\ ~IsString(processedParams[pId])

\* Variant: the outputs of the block are not added to the scope.
AddDefinedVariables_Forgotten(definedVariables, blockDefinition, processedParams) == definedVariables

\* blockScopedDefinedVariables after the forEach over the parameters
AddDefinedVariables(definedVariables, blockDefinition, processedParams) ==
  definedVariables \cup {processedParams[pId] :
               pId \in {q \in ParamIds(blockDefinition) \cap varDefiningParamIds :
                          /\ IsUsableName(processedParams[q])
                          /\ IsOutputParam(q, blockDefinition.id)}}

\* The loop variable is read where the block has children to compile.
HasLoopVariable(blockDefinition, processedParams) ==
  /\ blockDefinition.id = "loop_range"
  /\ "loopVariable" \in DOMAIN processedParams
  /\ Truthy(processedParams["loopVariable"])

\* Variant: the loop variable is not added to the scope.
AddLoopVariable_Forgotten(definedVariables, blockDefinition, processedParams) == definedVariables

\* Variant: the loop variable is added without being tested first.
AddLoopVariable_Untested(definedVariables, blockDefinition, processedParams) ==
  IF /\ blockDefinition.id = "loop_range"
     /\ "loopVariable" \in DOMAIN processedParams
     /\ IsString(processedParams["loopVariable"])
    THEN definedVariables \cup {Trim(processedParams["loopVariable"])}
    ELSE definedVariables

\* blockScopedDefinedVariables.add(processedParams.loopVariable.trim())
AddLoopVariable(definedVariables, blockDefinition, processedParams) ==
  IF HasLoopVariable(blockDefinition, processedParams)
    THEN definedVariables \cup {Trim(processedParams["loopVariable"])}
    ELSE definedVariables

\* Variant: the callee works on the caller's set itself, not on a copy.
CallerSetAfterCall_Shared(passed, calleeSet) == calleeSet

\* let blockScopedDefinedVariables = new Set(currentDefinedVariables): the
\* callee works on a copy, so the caller's set after the call is the set it
\* passed, whatever the callee's set has become.
CallerSetAfterCall(passed, calleeSet) == passed

ErrorLine(indentLevel, blockDefinition, canvasBlock) ==
  Line(Indent(indentLevel)
         \o <<"# Error generating code for block ", blockDefinition.name,
              " (ID: ", canvasBlock.instanceId, ")">>,
       canvasBlock.instanceId, "error")

PassLine(indentLevel, canvasBlock) ==
  Line(Indent(indentLevel) \o <<IndentUnit, "pass">>,
       canvasBlock.instanceId, "pass")

\* generatedBlockCode.split('\n').forEach(line => lines.push(indent + line))
TemplateLines(indentLevel, text, canvasBlock) ==
  LET parts == Split(text)
  IN [k \in 1..Len(parts) |->
        Line(Indent(indentLevel) \o parts[k], canvasBlock.instanceId,
             "template")]

\* One entry of the record of the calls of _processBlockParams.
Resolution(canvasBlock, indentLevel, definedVariables, pp) ==
  [block |-> canvasBlock.instanceId, depth |-> indentLevel, scope |-> definedVariables,
   threw |-> pp.threw, params |-> pp.params]

\* Variant: the children are compiled at the level of their parent.
ChildLevel_Same(indentLevel) == indentLevel

\* indentLevel + 1, the level the children are compiled at
ChildLevel(indentLevel) == indentLevel + 1

RECURSIVE generateCodeRecursive(_, _, _, _)
RECURSIVE ForEachBlock(_, _, _, _, _)
RECURSIVE CompileBlock(_, _, _, _)

\* In the operators below acc is the state of one call of
\* generateCodeRecursive: vars is its blockScopedDefinedVariables, lines its
\* lines, log the record of the resolutions made so far, and threw tells
\* that an exception is leaving the call.

\* Variant: the lines of the children are put before the lines pushed so far.
AfterChildren_ChildrenFirst(canvasBlock, blockDefinition, indentLevel, acc, sub) ==
  [acc EXCEPT
     !.vars = CallerSetAfterCall(acc.vars, sub.vars),
     !.log = acc.log \o sub.log,
     !.lines = IF sub.threw
                 THEN Append(acc.lines,
                             ErrorLine(indentLevel, blockDefinition, canvasBlock))
                 ELSE sub.lines \o acc.lines]

\* lines.push(...generateCodeRecursive(children, ...)), or the catch clause
\* when the call threw; sub is the state the call of the children ended in.
AfterChildren(canvasBlock, blockDefinition, indentLevel, acc, sub) ==
  [acc EXCEPT
     !.vars = CallerSetAfterCall(acc.vars, sub.vars),
     !.log = acc.log \o sub.log,
     !.lines = IF sub.threw
                 THEN Append(acc.lines,
                             ErrorLine(indentLevel, blockDefinition, canvasBlock))
                 ELSE acc.lines \o sub.lines]

\* if (canvasBlock.children && canvasBlock.children.length > 0) ... else ...
CompileChildren(canvasBlock, blockDefinition, availableBlocks, indentLevel, acc) ==
  IF Len(canvasBlock.children) > 0
    THEN AfterChildren(canvasBlock, blockDefinition, indentLevel, acc,
                       generateCodeRecursive(canvasBlock.children,
                                             availableBlocks,
                                             ChildLevel(indentLevel), acc.vars))
    ELSE [acc EXCEPT
            !.lines = Append(acc.lines, PassLine(indentLevel, canvasBlock))]

\* if (blockDefinition.canHaveChildren) { ... }, after the template's lines
\* were pushed; an exception of loopVariable.trim() goes to the catch clause.
CompileBody(canvasBlock, blockDefinition, availableBlocks, indentLevel, acc, processedParams) ==
  IF ~blockDefinition.canHaveChildren THEN acc
  ELSE IF HasLoopVariable(blockDefinition, processedParams)
          /\ ~IsString(processedParams["loopVariable"])
    THEN [acc EXCEPT
            !.lines = Append(acc.lines,
                             ErrorLine(indentLevel, blockDefinition, canvasBlock))]
  ELSE CompileChildren(canvasBlock, blockDefinition, availableBlocks,
                       indentLevel,
                       [acc EXCEPT
                          !.vars = AddLoopVariable(acc.vars, blockDefinition,
                                                   processedParams)])

\* try { codeTemplate(...); push its lines; ... } catch { push the comment };
\* generated is the outcome of the template.
EmitBlock(canvasBlock, blockDefinition, availableBlocks, indentLevel, acc, processedParams, generated) ==
  IF generated.threw
    THEN [acc EXCEPT
            !.lines = Append(acc.lines,
                             ErrorLine(indentLevel, blockDefinition, canvasBlock))]
    ELSE CompileBody(canvasBlock, blockDefinition, availableBlocks,
                     indentLevel,
                     [acc EXCEPT
                        !.lines = acc.lines
                                    \o TemplateLines(indentLevel, generated.text,
                                                     canvasBlock)],
                     processedParams)

\* The callback from the resolved parameters on: pp is the outcome of
\* _processBlockParams.  An exception of the resolver or of varName.trim()
\* leaves the call; otherwise the outputs enter the scope and the template
\* runs.
DefineAndEmit(canvasBlock, blockDefinition, availableBlocks, indentLevel, acc, pp) ==
  IF pp.threw \/ NameCheckThrows(blockDefinition, pp.params)
    THEN [acc EXCEPT
            !.threw = TRUE,
            !.log = Append(acc.log,
                           Resolution(canvasBlock, indentLevel, acc.vars, pp))]
    ELSE EmitBlock(canvasBlock, blockDefinition, availableBlocks, indentLevel,
                   [acc EXCEPT
                      !.vars = AddDefinedVariables(acc.vars, blockDefinition,
                                                   pp.params),
                      !.log = Append(acc.log,
                                     Resolution(canvasBlock, indentLevel,
                                                acc.vars, pp))],
                   pp.params,
                   codeTemplate(blockDefinition, pp.params))

\* Variant: a block of an unknown type is reported by a comment line.
ResolveAndEmit_Reported(canvasBlock, found, availableBlocks, indentLevel, acc) ==
  IF found = <<>>
    THEN [acc EXCEPT
            !.lines = Append(acc.lines,
                             Line(Indent(indentLevel) \o <<"# Unknown block">>,
                                  canvasBlock.instanceId, "error"))]
  ELSE DefineAndEmit(canvasBlock, found[1], availableBlocks, indentLevel, acc,
                     _processBlockParams(canvasBlock.params,
                                         found[1].parameters, acc.vars,
                                         found[1]))

\* Variant: the outputs of the block are in the scope its parameters are
\* resolved against.
ResolveAndEmit_OutputsFirst(canvasBlock, found, availableBlocks, indentLevel, acc) ==
  IF found = <<>> THEN acc
  ELSE DefineAndEmit(canvasBlock, found[1], availableBlocks, indentLevel, acc,
                     _processBlockParams(
                       canvasBlock.params, found[1].parameters,
                       acc.vars
                         \cup {Trim(canvasBlock.params[id]) :
                                 id \in {q \in DOMAIN canvasBlock.params :
                                           /\ q \in varDefiningParamIds
                                           /\ IsString(canvasBlock.params[q])}},
                       found[1]))

\* if (blockDefinition) { const processedParams = _processBlockParams(...) ...
ResolveAndEmit(canvasBlock, found, availableBlocks, indentLevel, acc) ==
  IF found = <<>> THEN acc
  ELSE DefineAndEmit(canvasBlock, found[1], availableBlocks, indentLevel, acc,
                     _processBlockParams(canvasBlock.params,
                                         found[1].parameters, acc.vars,
                                         found[1]))

\* The forEach callback, for one canvasBlock.
CompileBlock(canvasBlock, availableBlocks, indentLevel, acc) ==
  ResolveAndEmit(canvasBlock,
                 FindBlock(availableBlocks, canvasBlock.blockTypeId),
                 availableBlocks, indentLevel, acc)

\* Variant: the blocks of a level are compiled last to first.
RECURSIVE ForEachBlock_Reversed(_, _, _, _, _)
ForEachBlock_Reversed(blocks, k, availableBlocks, indentLevel, acc) ==
  IF k > Len(blocks) \/ acc.threw THEN acc
  ELSE ForEachBlock_Reversed(blocks, k + 1, availableBlocks, indentLevel,
                             CompileBlock(blocks[Len(blocks) + 1 - k],
                                          availableBlocks, indentLevel, acc))

\* Variant: the callback runs twice for each block.
RECURSIVE ForEachBlock_Twice(_, _, _, _, _)
ForEachBlock_Twice(blocks, k, availableBlocks, indentLevel, acc) ==
  IF k > Len(blocks) \/ acc.threw THEN acc
  ELSE ForEachBlock_Twice(blocks, k + 1, availableBlocks, indentLevel,
                          CompileBlock(blocks[k], availableBlocks, indentLevel,
                                       CompileBlock(blocks[k], availableBlocks,
                                                    indentLevel, acc)))

\* blocks.forEach(...), from block k on; an exception ends the iteration
ForEachBlock(blocks, k, availableBlocks, indentLevel, acc) ==
  IF k > Len(blocks) \/ acc.threw THEN acc
  ELSE ForEachBlock(blocks, k + 1, availableBlocks, indentLevel,
                    CompileBlock(blocks[k], availableBlocks, indentLevel, acc))

generateCodeRecursive(blocks, availableBlocks, indentLevel, currentDefinedVariables) ==
  ForEachBlock(blocks, 1, availableBlocks, indentLevel,
               [vars |-> currentDefinedVariables, lines |-> <<>>,
                log |-> <<>>, threw |-> FALSE])

Placeholder == <<"# Drag and drop blocks to generate Python code.">>

Header == <<
  Line(<<"# Visual Script Generated Code">>, "", "header"),
  Line(<<"# Note: Some blocks might require specific libraries (e.g., requests, pyautogui, pandas, selenium).">>,
       "", "header"),
  Line(<<"# Make sure to install them using pip: pip install requests pyautogui pandas selenium webdriver-manager">>,
       "", "header"),
  Line(<<>>, "", "header") >>

\* Variant: the set is the one the call before left behind.
NewSet_Leftover == UNION {run.log[j].scope : j \in 1..Len(run.log)}

\* new Set<string>()
NewSet == {}

TextOf(ls) == [k \in 1..Len(ls) |-> ls[k].text]

\* codeLines.push(...body); return codeLines.join('\n') -- body is the state
\* the call of generateCodeRecursive ended in
Assemble(body) ==
  IF body.threw
    THEN [threw |-> TRUE, text |-> <<>>, lines |-> <<>>, log |-> body.log]
    ELSE [threw |-> FALSE, text |-> Join(TextOf(Header \o body.lines)),
          lines |-> Header \o body.lines, log |-> body.log]

\* Variant: the placeholder is returned whenever the body has no line.
generatePythonCode_PlaceholderForEmptyBody(blocks, availableBlocks) ==
  IF generateCodeRecursive(blocks, availableBlocks, 0, NewSet).lines = <<>>
    THEN [threw |-> FALSE, text |-> Placeholder, lines |-> <<>>, log |-> <<>>]
    ELSE Assemble(generateCodeRecursive(blocks, availableBlocks, 0, NewSet))

\* generatePythonCode: threw tells whether the call ended in an exception,
\* text is the returned string; lines and log are kept for the properties.
generatePythonCode(blocks, availableBlocks) ==
  IF Len(blocks) = 0
    THEN [threw |-> FALSE, text |-> Placeholder, lines |-> <<>>, log |-> <<>>]
    ELSE Assemble(generateCodeRecursive(blocks, availableBlocks, 0, NewSet))

\* ------------------------------------------------------------ block trees
\* instanceId of the k-th block placed on the canvas
InstanceId(k) == "block_" \o ToString(k)

\* A CanvasBlock: instanceId, blockTypeId, params, isCollapsed, children (the
\* empty list stands for an absent list too)
CanvasBlock(instanceId, blockTypeId, params, children) ==
  [instanceId |-> instanceId, blockTypeId |-> blockTypeId,
   params |-> params, isCollapsed |-> FALSE, children |-> children]

\* The block type and parameter map of one instance, as the trees of the
\* model are drawn from them.
Config(blockTypeId, params) == [blockTypeId |-> blockTypeId, params |-> params]

NodeConfigs == {
  Config("print_message", [message |-> <<"i">>]),
  Config("print_message", [message |-> <<SP, "x">>]),
  Config("print_message", [message |-> NotAString]),
  Config("print_message", [message |-> <<>>]),
  Config("define_variable", [variableName |-> <<"x">>, value |-> <<"5">>]),
  Config("define_variable", [variableName |-> <<"i">>, value |-> <<"x">>]),
  Config("define_variable", [variableName |-> <<"x">>, value |-> <<"x">>]),
  Config("define_variable", [variableName |-> <<DQ, DQ>>]),
  Config("loop_range", [loopVariable |-> <<"i">>]),
  Config("loop_range", [loopVariable |-> <<>>, count |-> <<"x">>]),
  Config("custom_function", [args |-> <<SP, "x">>, outputVar |-> <<"i">>]),
  Config("custom_function", [args |-> <<>>, outputVar |-> <<SP>>]),
  Config("pandas_df_head", [dataFrameVariable |-> <<"x">>]),
  Config("failing_block", [message |-> <<"i">>]),
  Config("read_file", [variableName |-> <<"i">>]),
  Config("missing_block", [message |-> <<"i">>]) }

RECURSIVE AncestorsOrSelf(_, _)
AncestorsOrSelf(parent, k) ==
  IF k = 0 THEN {0} ELSE {k} \cup AncestorsOrSelf(parent, parent[k])

\* The forests of n blocks numbered in document order: the parent of block k
\* is 0 (the root list) or a block on the path from the root to block k - 1.
Shapes(n) ==
  {parent \in [1..n -> 0..(n - 1)] :
     \A k \in 1..n : parent[k] \in AncestorsOrSelf(parent, k - 1)}

RECURSIVE BuildChildren(_, _, _, _)
\* The child list of block p (the root list for p = 0), from block k on.
BuildChildren(parent, cfg, p, k) ==
  IF k > Len(parent) THEN <<>>
  ELSE IF parent[k] = p
    THEN <<CanvasBlock(InstanceId(k), cfg[k].blockTypeId, cfg[k].params,
                       BuildChildren(parent, cfg, k, k + 1))>>
           \o BuildChildren(parent, cfg, p, k + 1)
    ELSE BuildChildren(parent, cfg, p, k + 1)

\* ------------------------------------------------------- one call on a tree
NoRun == [threw |-> FALSE, text |-> <<>>, lines |-> <<>>, log |-> <<>>]

\* No call of _processBlockParams on its own is under way.
NoCall == [called |-> FALSE]
NotProcessed == [done |-> FALSE, threw |-> FALSE, params |-> <<>>]

\* No handler of the page has been called yet.
NoEvent == [op |-> "none", n |-> 0]

Init ==
  /\ \E n \in 0..MaxBlocks :
       \E parent \in Shapes(n) :
         \E cfg \in [1..n -> NodeConfigs] :
           /\ canvasBlocks = BuildChildren(parent, cfg, 0, 1)
           /\ created = n
  /\ generatedCode = <<>>
  /\ run = NoRun
  /\ calls = 0
  /\ stale = TRUE
  /\ history = {}
  /\ resolving = NoCall
  /\ processed = NotProcessed
  /\ event = NoEvent

\* const code = generatePythonCode(canvasBlocks, availableBlocks);
\* setGeneratedCode(code) -- not reached when the call throws
SetGenerated(r) ==
  /\ run' = r
  /\ generatedCode' = IF r.threw THEN generatedCode ELSE r.text

GenerateCode ==
  /\ calls = 0
  /\ SetGenerated(generatePythonCode(canvasBlocks, Registry))
  /\ calls' = 1
  /\ UNCHANGED <<canvasBlocks, stale, history, resolving, processed, created,
                 event>>

Next == GenerateCode

Spec == Init /\ [][Next]_vars

Done == calls = 1

\* ---------------------------------------------------- the resolver on its own
\* Block types of AVAILABLE_BLOCKS whose parameters the resolver treats by
\* their block id or kind; their templates are not modelled.
HttpRequest ==
  BlockDef("http_request", "HTTP Request",
           <<Param("method", "select", <<"GET">>),
             Param("url", "string", <<"https://api.example.com/data">>),
             Param("headers", "textarea", <<>>),
             Param("body", "textarea", <<>>),
             Param("authType", "select", <<"None">>),
             Param("authToken", "password", <<>>),
             Param("authBasicUser", "string", <<>>),
             Param("authBasicPass", "password", <<>>),
             Param("responseVariable", "string", <<"response_data">>)>>,
           FALSE)

PyautoguiMoveTo ==
  BlockDef("pyautogui_move_to", "Move Mouse",
           <<Param("x_coord", "number", <<"100">>),
             Param("y_coord", "number", <<"100">>),
             Param("duration", "number", <<"0.25">>)>>, FALSE)

PyautoguiClick ==
  BlockDef("pyautogui_click", "Click Mouse",
           <<Param("x_coord", "string", <<>>),
             Param("y_coord", "string", <<>>),
             Param("button", "select", <<"left">>)>>, FALSE)

PyautoguiScreenshot ==
  BlockDef("pyautogui_screenshot", "Take Screenshot",
           <<Param("filename", "string", <<"screenshot.png">>),
             Param("variableName", "string", <<>>)>>, FALSE)

\* The block definitions the resolver is called with.
ResolverBlocks ==
  {AVAILABLE_BLOCKS[k] : k \in 1..Len(AVAILABLE_BLOCKS)}
    \cup {HttpRequest, PyautoguiMoveTo, PyautoguiClick, PyautoguiScreenshot}

\* The values stored for the parameter the call is made for.
ResolverValues ==
  {<<>>, <<"x">>, <<SP, "x", SP>>, <<NL, "x">>, <<"5">>, <<"x", SP, "5">>,
   <<"a", DQ, "b">>, <<BS, "n">>, <<"a", NL, "b">>, <<DQ, DQ>>,
   <<DQ, DQ, DQ>>, NotAString}

\* The scopes the call is made with.
ResolverScopes == {{}, {<<"x">>}, {<<"5">>, <<"a", DQ, "b">>}}

\* What is stored for the other parameters of the block: nothing (they take
\* their defaults), the method of an http_request, the name of a
\* define_variable.
Companions(blockDefinition, paramDef) ==
  {<<>>}
    \cup (IF blockDefinition.id = "http_request" /\ paramDef.id # "method"
            THEN {[method |-> m] :
                    m \in {<<"GET">>, <<"POST">>, <<"post">>, <<"PUT">>,
                           <<"PATCH">>, <<"DELETE">>}}
            ELSE {})
    \cup (IF blockDefinition.id = "define_variable" /\ paramDef.id = "value"
            THEN {[variableName |-> <<"x">>]}
            ELSE {})

\* A parameter map: the value for one parameter and the companions.
RawParams(paramDef, value, others) ==
  [id \in {paramDef.id} \cup DOMAIN others |->
     IF id = paramDef.id THEN value ELSE others[id]]

ResolverInit ==
  /\ canvasBlocks = <<>>
  /\ created = 0
  /\ event = NoEvent
  /\ generatedCode = <<>>
  /\ run = NoRun
  /\ calls = 0
  /\ stale = FALSE
  /\ history = {}
  /\ \E blockDefinition \in ResolverBlocks :
       \E k \in 1..Len(blockDefinition.parameters) :
         \E value \in ResolverValues :
           \E others \in Companions(blockDefinition,
                                    blockDefinition.parameters[k]) :
             \E definedVariables \in ResolverScopes :
               resolving =
                 [called |-> TRUE,
                  rawParams |-> RawParams(blockDefinition.parameters[k],
                                          value, others),
                  paramDef |-> blockDefinition.parameters[k],
                  definedVariables |-> definedVariables,
                  blockDefinition |-> blockDefinition]
  /\ processed = NotProcessed

\* const processedParams = _processBlockParams(canvasBlock.params,
\*   blockDefinition.parameters, blockScopedDefinedVariables, blockDefinition)
Returned(pp) == [done |-> TRUE, threw |-> pp.threw, params |-> pp.params]

ProcessBlockParams ==
  /\ resolving.called
  /\ ~processed.done
  /\ processed' = Returned(_processBlockParams(resolving.rawParams,
                             resolving.blockDefinition.parameters,
                             resolving.definedVariables,
                             resolving.blockDefinition))
  /\ UNCHANGED <<canvasBlocks, generatedCode, run, calls, stale, history,
                 resolving, created, event>>

ResolverNext == ProcessBlockParams

ResolverSpec == ResolverInit /\ [][ResolverNext]_vars

\* ------------------------------------------------------ the page at work
\* The blocks the page can hold: types of AVAILABLE_BLOCKS, string values.
SessionConfigs == {
  Config("print_message", [message |-> <<"x">>]),
  Config("print_message", [message |-> <<"i">>]),
  Config("define_variable", [variableName |-> <<"x">>, value |-> <<"5">>]),
  Config("loop_range", [loopVariable |-> <<"i">>, count |-> <<"x">>]),
  Config("custom_function", [args |-> <<>>, outputVar |-> <<"x">>]) }

\* The values typed into a parameter field.
SessionValues == {<<"x">>, <<"i">>}

RECURSIVE InstanceIds(_)
\* The instance ids of the blocks of a forest.
InstanceIds(blocks) ==
  IF blocks = <<>> THEN {}
  ELSE {Head(blocks).instanceId} \cup InstanceIds(Head(blocks).children)
         \cup InstanceIds(Tail(blocks))

RECURSIVE BlockTypesOf(_, _)
\* The blockTypeId of the block of the given instance id (a set: empty when
\* there is no such block).
BlockTypesOf(blocks, instanceId) ==
  IF blocks = <<>> THEN {}
  ELSE (IF Head(blocks).instanceId = instanceId
          THEN {Head(blocks).blockTypeId} ELSE {})
         \cup BlockTypesOf(Head(blocks).children, instanceId)
         \cup BlockTypesOf(Tail(blocks), instanceId)

\* { ...block.params, [paramId]: value }
WithParam(params, paramId, value) ==
  [id \in DOMAIN params \cup {paramId} |->
     IF id = paramId THEN value ELSE params[id]]

RECURSIVE updateRecursive(_, _, _, _)
\* updateRecursive of handleParamChange
updateRecursive(blocks, instanceId, paramId, value) ==
  [k \in 1..Len(blocks) |->
     IF blocks[k].instanceId = instanceId
       THEN [blocks[k] EXCEPT !.params = WithParam(@, paramId, value)]
     ELSE IF Len(blocks[k].children) > 0
       THEN [blocks[k] EXCEPT
               !.children = updateRecursive(@, instanceId, paramId, value)]
     ELSE blocks[k]]

\* Variant: only the blocks of the list itself are looked at, not their
\* children.
removeRecursive_ThisLevelOnly(blocks, instanceId) ==
  SelectSeq(blocks, LAMBDA block : block.instanceId # instanceId)

RECURSIVE removeRecursive(_, _)
\* removeRecursive of handleRemoveBlock: its updatedBlocks
removeRecursive(blocks, instanceId) ==
  IF blocks = <<>> THEN <<>>
  ELSE IF Head(blocks).instanceId = instanceId
    THEN removeRecursive(Tail(blocks), instanceId)
  ELSE <<IF Len(Head(blocks).children) > 0
           THEN [Head(blocks) EXCEPT
                   !.children = removeRecursive(@, instanceId)]
           ELSE Head(blocks)>>
         \o removeRecursive(Tail(blocks), instanceId)

\* What is kept of a call: the tree, the outcome, the names that were in the
\* scope of some block.
CallRecord(blocks, r) ==
  [blocks |-> blocks, threw |-> r.threw, text |-> r.text,
   symbols |-> UNION {r.log[j].scope : j \in 1..Len(r.log)}]

RECURSIVE ChildrenWhereAllowed(_)
\* The page lets blocks into the child list of a block only when its type
\* can have children (insertIntoChildrenRecursive).
ChildrenWhereAllowed(blocks) ==
  \A k \in 1..Len(blocks) :
    /\ Len(blocks[k].children) > 0
         => FindBlock(AVAILABLE_BLOCKS, blocks[k].blockTypeId)[1].canHaveChildren
    /\ ChildrenWhereAllowed(blocks[k].children)

SessionInit ==
  /\ \E n \in 0..MaxSessionBlocks :
       \E parent \in Shapes(n) :
         \E cfg \in [1..n -> SessionConfigs] :
           /\ ChildrenWhereAllowed(BuildChildren(parent, cfg, 0, 1))
           /\ canvasBlocks = BuildChildren(parent, cfg, 0, 1)
           /\ created = n
  /\ generatedCode = <<>>
  /\ run = NoRun
  /\ calls = 0
  /\ stale = TRUE
  /\ history = {}
  /\ resolving = NoCall
  /\ processed = NotProcessed
  /\ event = NoEvent

\* The effect on [canvasBlocks, isClient]: generatePythonCode is called and
\* its text kept.
Regenerate ==
  /\ stale
  /\ calls < MaxCalls
  /\ SetGenerated(generatePythonCode(canvasBlocks, AVAILABLE_BLOCKS))
  /\ history' = history
                  \cup {CallRecord(canvasBlocks,
                                   generatePythonCode(canvasBlocks,
                                                      AVAILABLE_BLOCKS))}
  /\ calls' = calls + 1
  /\ stale' = FALSE
  /\ UNCHANGED <<canvasBlocks, resolving, processed, created, event>>

\* setCanvasBlocks(updater) of a handler: the tree becomes the one the
\* updater returns, and the effect on [canvasBlocks] is due.  ev tells which
\* handler was called with which arguments.
SetCanvasBlocks(blocks, ev) ==
  /\ canvasBlocks' = blocks
  /\ event' = ev
  /\ stale' = TRUE
  /\ UNCHANGED <<generatedCode, run, calls, history, resolving, processed>>

\* handleParamChange(instanceId, paramId, value), for a field of the block
handleParamChange ==
  /\ \E instanceId \in InstanceIds(canvasBlocks) :
       \E blockTypeId \in BlockTypesOf(canvasBlocks, instanceId) :
         \E paramId \in ParamIds(FindBlock(AVAILABLE_BLOCKS, blockTypeId)[1]) :
           \E value \in SessionValues :
             SetCanvasBlocks(updateRecursive(canvasBlocks, instanceId,
                                             paramId, value),
                             [op |-> "param", n |-> event.n + 1,
                              before |-> canvasBlocks,
                              instanceId |-> instanceId, paramId |-> paramId,
                              value |-> value])
  /\ UNCHANGED created

\* handleRemoveBlock(instanceId)
handleRemoveBlock ==
  /\ \E instanceId \in InstanceIds(canvasBlocks) :
       SetCanvasBlocks(removeRecursive(canvasBlocks, instanceId),
                       [op |-> "remove", n |-> event.n + 1,
                        before |-> canvasBlocks, instanceId |-> instanceId])
  /\ UNCHANGED created

\* The effect has run on the tree the page holds, and another call may follow.
Rendered == ~stale /\ calls < MaxCalls

SessionNext ==
  \/ Regenerate
  \/ Rendered /\ handleParamChange
  \/ Rendered /\ handleRemoveBlock

SessionSpec == SessionInit /\ [][SessionNext]_vars

\* ------------------------------------------------- the canvas being edited
\* getData(...) of an item the drag does not carry; dataset.instanceId of no
\* element
NoId == ""

\* The block types a drag from the palette can carry, and one that is not
\* in AVAILABLE_BLOCKS.
PaletteTypes == {"print_message", "loop_range", "missing_block"}

\* An instance id no block of the tree has.
GhostId == "block_0"

\* { ...block, children: [...(block.children || []), blockToInsert],
\*   isCollapsed: false }
WithChild(block, blockToInsert) ==
  [block EXCEPT !.children = Append(@, blockToInsert), !.isCollapsed = FALSE]

\* parentDef?.canHaveChildren, for parentDef of block.blockTypeId
ParentCanHaveChildren(block) ==
  /\ FindBlock(AVAILABLE_BLOCKS, block.blockTypeId) # <<>>
  /\ FindBlock(AVAILABLE_BLOCKS, block.blockTypeId)[1].canHaveChildren

\* Variant: the type of the parent is not looked at.
RECURSIVE insertIntoChildrenRecursive_AnyParent(_, _, _)
insertIntoChildrenRecursive_AnyParent(blocks, parentId, blockToInsert) ==
  [k \in 1..Len(blocks) |->
     IF blocks[k].instanceId = parentId
       THEN WithChild(blocks[k], blockToInsert)
       ELSE [blocks[k] EXCEPT
               !.children = insertIntoChildrenRecursive_AnyParent(
                              @, parentId, blockToInsert)]]

RECURSIVE insertIntoChildrenRecursive(_, _, _)
\* insertIntoChildrenRecursive: blocks.map(...)
insertIntoChildrenRecursive(blocks, parentId, blockToInsert) ==
  [k \in 1..Len(blocks) |->
     IF blocks[k].instanceId = parentId /\ ParentCanHaveChildren(blocks[k])
       THEN WithChild(blocks[k], blockToInsert)
       ELSE [blocks[k] EXCEPT
               !.children = insertIntoChildrenRecursive(@, parentId,
                                                        blockToInsert)]]

\* Nothing removed, nothing inserted yet.
NothingRemoved == [updatedBlocks |-> <<>>, removedBlock |-> <<>>]
NothingInserted == [newBlocks |-> <<>>, inserted |-> FALSE]

RECURSIVE findAndRemoveBlockRecursive(_, _)
RECURSIVE FilterBlocks(_, _, _, _)

\* The filter callback for a block that is not the one to remove, result
\* being what the search of its children returned: return true, the block is
\* kept, with the children left when the block to remove was among them.
KeepBlock(block, acc, result) ==
  IF result.removedBlock # <<>>
    THEN [updatedBlocks |->
            Append(acc.updatedBlocks,
                   [block EXCEPT !.children = result.updatedBlocks]),
          removedBlock |-> result.removedBlock]
    ELSE [acc EXCEPT !.updatedBlocks = Append(@, block)]

\* blocks.filter(...), from block k on; acc holds the blocks kept and
\* removedBlock
FilterBlocks(blocks, k, idToRemove, acc) ==
  IF k > Len(blocks) THEN acc
  ELSE IF blocks[k].instanceId = idToRemove
    THEN FilterBlocks(blocks, k + 1, idToRemove,
                      [acc EXCEPT !.removedBlock = <<blocks[k]>>])
  ELSE IF acc.removedBlock = <<>>
    THEN FilterBlocks(blocks, k + 1, idToRemove,
                      KeepBlock(blocks[k], acc,
                                findAndRemoveBlockRecursive(blocks[k].children,
                                                            idToRemove)))
  ELSE FilterBlocks(blocks, k + 1, idToRemove,
                    [acc EXCEPT !.updatedBlocks = Append(@, blocks[k])])

\* findAndRemoveBlockRecursive: { updatedBlocks, removedBlock }, removedBlock
\* a list of one block, or the empty list for null
findAndRemoveBlockRecursive(blocks, idToRemove) ==
  FilterBlocks(blocks, 1, idToRemove, NothingRemoved)

RECURSIVE insertBeforeRecursive(_, _, _)
RECURSIVE InsertLoop(_, _, _, _, _)

\* The second if of the loop body, for a block whose children were searched
\* with the result childResult.
PushBlock(block, acc, childResult) ==
  IF childResult.inserted
    THEN [newBlocks |->
            Append(acc.newBlocks,
                   [block EXCEPT !.children = childResult.newBlocks]),
          inserted |-> TRUE]
    ELSE [acc EXCEPT !.newBlocks = Append(@, block)]

\* The loop body after its first if: acc has the block to insert when block
\* is the target.
AfterTargetTest(block, targetId, blockToInsert, acc) ==
  IF ~acc.inserted
    THEN PushBlock(block, acc,
                   insertBeforeRecursive(block.children, targetId,
                                         blockToInsert))
    ELSE [acc EXCEPT !.newBlocks = Append(@, block)]

\* for (const block of blocks) { ... }, from block k on
InsertLoop(blocks, k, targetId, blockToInsert, acc) ==
  IF k > Len(blocks) THEN acc
  ELSE InsertLoop(blocks, k + 1, targetId, blockToInsert,
                  AfterTargetTest(
                    blocks[k], targetId, blockToInsert,
                    IF blocks[k].instanceId = targetId /\ ~acc.inserted
                      THEN [newBlocks |-> Append(acc.newBlocks, blockToInsert),
                            inserted |-> TRUE]
                      ELSE acc))

\* insertBeforeRecursive: { newBlocks, inserted }
insertBeforeRecursive(blocks, targetId, blockToInsert) ==
  InsertLoop(blocks, 1, targetId, blockToInsert, NothingInserted)

\* result.inserted ? result.newBlocks : [...blocks, blockToInsert]
InsertedOrAppended(blocks, blockToInsert, result) ==
  IF result.inserted THEN result.newBlocks ELSE Append(blocks, blockToInsert)

\* const newBlock: CanvasBlock = { instanceId, blockTypeId, params:
\* initialParams, isCollapsed: false, children: [] when the type has them }
NewBlock(blockType, instanceId) ==
  [instanceId |-> instanceId, blockTypeId |-> blockType.id,
   params |-> [id \in ParamIds(blockType) |->
                 FindParam(blockType, id).defaultValue],
   isCollapsed |-> FALSE, children |-> <<>>]

\* Variant: a new block that found no parent is appended to the root list.
PlaceNewBlock_RootWhenNoParent(prevBlocks, newBlock, parentDropZoneInstanceId, directDropOnBlockInstanceId) ==
  IF parentDropZoneInstanceId # NoId
    THEN IF insertIntoChildrenRecursive(prevBlocks, parentDropZoneInstanceId,
                                        newBlock) = prevBlocks
           THEN Append(prevBlocks, newBlock)
           ELSE insertIntoChildrenRecursive(prevBlocks,
                                            parentDropZoneInstanceId, newBlock)
  ELSE IF directDropOnBlockInstanceId # NoId
          /\ directDropOnBlockInstanceId # newBlock.instanceId
    THEN InsertedOrAppended(prevBlocks, newBlock,
                            insertBeforeRecursive(prevBlocks,
                                                  directDropOnBlockInstanceId,
                                                  newBlock))
  ELSE Append(prevBlocks, newBlock)

\* The updater of handleBlockDrop for a new block, from if
\* (parentDropZoneInstanceId) on.
PlaceNewBlock(prevBlocks, newBlock, parentDropZoneInstanceId, directDropOnBlockInstanceId) ==
  IF parentDropZoneInstanceId # NoId
    THEN insertIntoChildrenRecursive(prevBlocks, parentDropZoneInstanceId,
                                     newBlock)
  ELSE IF directDropOnBlockInstanceId # NoId
          /\ directDropOnBlockInstanceId # newBlock.instanceId
    THEN InsertedOrAppended(prevBlocks, newBlock,
                            insertBeforeRecursive(prevBlocks,
                                                  directDropOnBlockInstanceId,
                                                  newBlock))
  ELSE Append(prevBlocks, newBlock)

\* The updater for a block of the canvas, after findAndRemoveBlockRecursive
\* returned removed.
PlaceRemovedBlock(prevBlocks, removed, parentDropZoneInstanceId, directDropOnBlockInstanceId) ==
  IF removed.removedBlock = <<>> THEN prevBlocks
  ELSE IF parentDropZoneInstanceId # NoId
    THEN insertIntoChildrenRecursive(removed.updatedBlocks,
                                     parentDropZoneInstanceId,
                                     removed.removedBlock[1])
  ELSE IF directDropOnBlockInstanceId # NoId
    THEN InsertedOrAppended(removed.updatedBlocks, removed.removedBlock[1],
                            insertBeforeRecursive(removed.updatedBlocks,
                                                  directDropOnBlockInstanceId,
                                                  removed.removedBlock[1]))
  ELSE Append(removed.updatedBlocks, removed.removedBlock[1])

\* The updater of handleBlockDrop for a new block of type newBlockTypeId;
\* instanceId is the id crypto.randomUUID() gives it.
DropNewBlock(prevBlocks, newBlockTypeId, instanceId, parentDropZoneInstanceId, directDropOnBlockInstanceId) ==
  IF FindBlock(AVAILABLE_BLOCKS, newBlockTypeId) = <<>> THEN prevBlocks
  ELSE PlaceNewBlock(prevBlocks,
                     NewBlock(FindBlock(AVAILABLE_BLOCKS, newBlockTypeId)[1],
                              instanceId),
                     parentDropZoneInstanceId, directDropOnBlockInstanceId)

\* The updater of handleBlockDrop for the block draggedInstanceId of the
\* canvas.
MoveBlock(prevBlocks, draggedInstanceId, parentDropZoneInstanceId, directDropOnBlockInstanceId) ==
  IF \/ draggedInstanceId = parentDropZoneInstanceId
     \/ draggedInstanceId = directDropOnBlockInstanceId
    THEN prevBlocks
    ELSE PlaceRemovedBlock(prevBlocks,
                           findAndRemoveBlockRecursive(prevBlocks,
                                                       draggedInstanceId),
                           parentDropZoneInstanceId,
                           directDropOnBlockInstanceId)

\* The drop zones and the cards an event can name: those of the blocks of
\* the tree, one that is gone, or none.
DropZoneIds == InstanceIds(canvasBlocks) \cup {GhostId, NoId}
CardIds == InstanceIds(canvasBlocks) \cup {NoId}

\* What is kept of a drop.
DropEvent(newBlockTypeId, draggedInstanceId, instanceId, parentDropZoneInstanceId, directDropOnBlockInstanceId) ==
  [op |-> "drop", n |-> event.n + 1, before |-> canvasBlocks,
   newBlockTypeId |-> newBlockTypeId,
   draggedInstanceId |-> draggedInstanceId, instanceId |-> instanceId,
   parentDropZoneInstanceId |-> parentDropZoneInstanceId,
   directDropOnBlockInstanceId |-> directDropOnBlockInstanceId]

\* handleBlockDrop(event): the drag carries a block type of the palette, or
\* the instance id of a block of the canvas.
handleBlockDrop ==
  \/ \E newBlockTypeId \in PaletteTypes :
       \E parentDropZoneInstanceId \in DropZoneIds :
         \E directDropOnBlockInstanceId \in CardIds :
           /\ SetCanvasBlocks(
                DropNewBlock(canvasBlocks, newBlockTypeId,
                             InstanceId(created + 1),
                             parentDropZoneInstanceId,
                             directDropOnBlockInstanceId),
                DropEvent(newBlockTypeId, NoId, InstanceId(created + 1),
                          parentDropZoneInstanceId,
                          directDropOnBlockInstanceId))
           /\ created' = IF FindBlock(AVAILABLE_BLOCKS, newBlockTypeId) = <<>>
                            THEN created
                            ELSE created + 1
  \/ \E draggedInstanceId \in InstanceIds(canvasBlocks) :
       \E parentDropZoneInstanceId \in DropZoneIds :
         \E directDropOnBlockInstanceId \in CardIds :
           /\ SetCanvasBlocks(
                MoveBlock(canvasBlocks, draggedInstanceId,
                          parentDropZoneInstanceId,
                          directDropOnBlockInstanceId),
                DropEvent(NoId, draggedInstanceId, NoId,
                          parentDropZoneInstanceId,
                          directDropOnBlockInstanceId))
           /\ UNCHANGED created

RECURSIVE toggleRecursive(_, _)
\* toggleRecursive of handleToggleBlockCollapse
toggleRecursive(blocks, instanceId) ==
  [k \in 1..Len(blocks) |->
     IF blocks[k].instanceId = instanceId
       THEN [blocks[k] EXCEPT !.isCollapsed = ~@]
     ELSE IF Len(blocks[k].children) > 0
       THEN [blocks[k] EXCEPT !.children = toggleRecursive(@, instanceId)]
     ELSE blocks[k]]

\* handleToggleBlockCollapse(instanceId)
handleToggleBlockCollapse ==
  /\ \E instanceId \in InstanceIds(canvasBlocks) :
       SetCanvasBlocks(toggleRecursive(canvasBlocks, instanceId),
                       [op |-> "toggle", n |-> event.n + 1,
                        before |-> canvasBlocks, instanceId |-> instanceId])
  /\ UNCHANGED created

\* const [canvasBlocks, setCanvasBlocks] = useState<CanvasBlock[]>([])
CanvasInit ==
  /\ canvasBlocks = <<>>
  /\ created = 0
  /\ generatedCode = <<>>
  /\ run = NoRun
  /\ calls = 0
  /\ stale = TRUE
  /\ history = {}
  /\ resolving = NoCall
  /\ processed = NotProcessed
  /\ event = NoEvent

\* Another handler may be called.
MayEdit == event.n < MaxEdits

\* The handlers that set canvasBlocks.  The effect on [canvasBlocks] reads
\* the tree and sets generatedCode alone; it is left to SessionSpec.
CanvasNext ==
  \/ MayEdit /\ handleBlockDrop
  \/ MayEdit /\ handleParamChange
  \/ MayEdit /\ handleRemoveBlock
  \/ MayEdit /\ handleToggleBlockCollapse

CanvasSpec == CanvasInit /\ [][CanvasNext]_vars

\* ------------------------------------------------- the tree, for the claims
\* The blocks of a forest in document order, each with its position, the
\* position of its parent (0 for a root block) and its nesting depth.
RECURSIVE Flatten(_, _, _, _)
Flatten(blocks, parentPos, depth, offset) ==
  IF blocks = <<>> THEN <<>>
  ELSE LET me == offset + 1
           sub == Flatten(Head(blocks).children, me, depth + 1, me)
       IN <<[parent |-> parentPos, depth |-> depth, block |-> Head(blocks)]>>
            \o sub
            \o Flatten(Tail(blocks), parentPos, depth, me + Len(sub))

Order == Flatten(canvasBlocks, 0, 0, 0)

RECURSIVE Anc(_, _)
Anc(F, k) == IF F[k].parent = 0 THEN {} ELSE {F[k].parent} \cup Anc(F, F[k].parent)

Desc(F, k) == {j \in 1..Len(F) : k \in Anc(F, j)}

\* The later siblings of block n and their descendants.
After(F, n) ==
  {m \in 1..Len(F) :
     \E a \in {m} \cup Anc(F, m) : F[a].parent = F[n].parent /\ a > n}

\* The earlier siblings of block n and their descendants.
Before(F, n) ==
  {m \in 1..Len(F) :
     \E a \in {m} \cup Anc(F, m) : F[a].parent = F[n].parent /\ a < n}

\* The earlier siblings of block m and of each of its ancestors.
EarlierInScope(F, m) ==
  {b \in 1..Len(F) :
     \E a \in {m} \cup Anc(F, m) : F[b].parent = F[a].parent /\ b < a}

IsKnown(F, k) == FindBlock(Registry, F[k].block.blockTypeId) # <<>>
DefAt(F, k) == FindBlock(Registry, F[k].block.blockTypeId)[1]

\* The resolutions recorded for block k by the last call.
Entries(F, k) ==
  {e \in {run.log[j] : j \in 1..Len(run.log)} :
     e.block = F[k].block.instanceId}

\* Block k was reached and its parameters were resolved.
Resolved(F, k) ==
  /\ IsKnown(F, k)
  /\ \E e \in Entries(F, k) :
       ~e.threw /\ ~NameCheckThrows(DefAt(F, k), e.params)

EntryOf(F, k) == CHOOSE e \in Entries(F, k) : TRUE

ParamDefs(F, k) ==
  {DefAt(F, k).parameters[j] : j \in 1..Len(DefAt(F, k).parameters)}

\* The trimmed values of the parameters block k declares as its outputs.
OutputValues(F, k) ==
  IF ~IsKnown(F, k) THEN {}
  ELSE {RawValue(F[k].block.params, pd) :
          pd \in {q \in ParamDefs(F, k) :
                    /\ q.id \in varDefiningParamIds
                    /\ IsOutputParam(q.id, DefAt(F, k).id)}}

NonEmptyOutputs(F, k) ==
  {v \in OutputValues(F, k) : IsString(v) /\ v # <<>>}

UsableOutputs(F, k) == NonEmptyOutputs(F, k) \ {<<DQ, DQ>>}

\* The loop variable of block k, when it is a loop with one.
LoopVariables(F, k) ==
  IF IsKnown(F, k) /\ DefAt(F, k).id = "loop_range"
    THEN {RawValue(F[k].block.params, pd) :
            pd \in {q \in ParamDefs(F, k) : q.id = "loopVariable"}}
           \ {<<>>, NotAString}
    ELSE {}

\* The parameters whose text is decided by looking the value up in the scope:
\* all but the symbol-defining ones and custom_function's args, which is
\* handed to the template as stored.
LookedUp(F, k) ==
  {pd \in ParamDefs(F, k) :
     /\ pd.id \notin directVariableNameParams
     /\ ~(DefAt(F, k).id = "custom_function" /\ pd.id = "args")}

NotSymbolDefining(F, k) ==
  {pd \in ParamDefs(F, k) : pd.id \notin directVariableNameParams}

HasValue(F, k, pd, s) ==
  /\ IsString(StoredValue(F[k].block.params, pd))
  /\ RawValue(F[k].block.params, pd) = s

\* Block m resolves parameter pd, whose value is s, to the bare name s
\* (custom_function's args: to the text as stored, unquoted).
BareIn(F, m, pd, s) ==
  /\ HasValue(F, m, pd, s)
  /\ IF pd \in LookedUp(F, m)
       THEN EntryOf(F, m).params[pd.id] = s
       ELSE EntryOf(F, m).params[pd.id] = StoredValue(F[m].block.params, pd)

\* Block m resolves one of its looked-up parameters as a reference to s.
RefersTo(F, m, s) ==
  \E pd \in LookedUp(F, m) :
    /\ HasValue(F, m, pd, s)
    /\ s \in EntryOf(F, m).scope
    /\ EntryOf(F, m).params[pd.id] = s

\* The symbols block m may refer to by the rules of the specification: the
\* outputs of the earlier siblings of m and of its ancestors, and the loop
\* variables of the loops m lies in.
DeclaredScope(F, m) ==
  UNION {UsableOutputs(F, b) : b \in EarlierInScope(F, m)}
    \cup UNION {LoopVariables(F, a) : a \in Anc(F, m)}

\* ... to which the compiler adds the loop variables of the loops that are
\* earlier siblings of m or of its ancestors.
ReachingScope(F, m) ==
  DeclaredScope(F, m) \cup UNION {LoopVariables(F, b) : b \in EarlierInScope(F, m)}

\* ------------------------------------------------------------------ claims
\* An earlier block, or a loop around block m, other than those of the set
\* `hidden`, introduces the symbol s.
IntroducedFor(F, m, s, hidden) ==
  \E b \in (EarlierInScope(F, m) \cup Anc(F, m)) \ hidden :
    s \in UsableOutputs(F, b) \cup LoopVariables(F, b)

\* C1: the loop variable v of a loop block L is out of scope once the loop
\* closes: every block after L at L's level, and every descendant of such a
\* block, with a free-text parameter whose trimmed value is v resolves it to
\* the quoted literal "v", unless another block in scope introduces v.
C1_LoopVariableOutOfScopeAfterLoop ==
  Done =>
    LET F == Order
    IN \A L \in 1..Len(F) : \A v \in LoopVariables(F, L) :
         \A m \in After(F, L) :
           Resolved(F, m) =>
             \A pd \in LookedUp(F, m) :
               (/\ pd.type = "string"
                /\ HasValue(F, m, pd, v)
                /\ v \notin DeclaredScope(F, m))
                 => EntryOf(F, m).params[pd.id] = formatPythonStringLiteral(v)

C3_NonEmptyOutputVisibleLater ==
  Done =>
    LET F == Order
    IN \A N \in 1..Len(F) :
         Resolved(F, N) =>
           \A s \in NonEmptyOutputs(F, N) : \A m \in After(F, N) :
             Resolved(F, m) =>
               \A pd \in NotSymbolDefining(F, m) :
                 HasValue(F, m, pd, s) => BareIn(F, m, pd, s)

\* C3, amended: every value of an output parameter of block N that is neither
\* empty nor the two-character text "" is resolved to the bare name by the
\* later blocks of N's level and by their descendants, in each of their
\* parameters that is not symbol-defining and whose trimmed value is the name.
C3_UsableOutputVisibleLater ==
  Done =>
    LET F == Order
    IN \A N \in 1..Len(F) :
         Resolved(F, N) =>
           \A s \in UsableOutputs(F, N) : \A m \in After(F, N) :
             Resolved(F, m) =>
               \A pd \in NotSymbolDefining(F, m) :
                 HasValue(F, m, pd, s) => BareIn(F, m, pd, s)

\* A later block, at a deeper level, refers to the output of block N.
C3_Witness ==
  /\ Done
  /\ LET F == Order
     IN \E N \in 1..Len(F) : \E s \in UsableOutputs(F, N) :
          \E m \in After(F, N) :
            /\ Resolved(F, N) /\ Resolved(F, m)
            /\ \E pd \in LookedUp(F, m) :
                 HasValue(F, m, pd, s) /\ BareIn(F, m, pd, s)

\* C4: a symbol introduced by block N is not resolved as a bare reference by
\* the earlier blocks of N's level or by their descendants, unless an
\* earlier block or an enclosing loop introduces it for them.
C4_NotVisibleEarlier ==
  Done =>
    LET F == Order
    IN \A N \in 1..Len(F) :
         \A s \in UsableOutputs(F, N) \cup LoopVariables(F, N) :
           \A m \in Before(F, N) :
             (Resolved(F, m) /\ RefersTo(F, m, s))
               => IntroducedFor(F, m, s, {})

\* A block names a variable that only a later sibling defines and gets the
\* quoted literal.
C4_Witness ==
  /\ Done
  /\ LET F == Order
     IN \E N \in 1..Len(F) : \E s \in UsableOutputs(F, N) :
          \E m \in Before(F, N) :
            /\ Resolved(F, N) /\ Resolved(F, m)
            /\ ~IntroducedFor(F, m, s, {})
            /\ \E pd \in LookedUp(F, m) :
                 /\ HasValue(F, m, pd, s)
                 /\ EntryOf(F, m).params[pd.id] = formatPythonStringLiteral(s)

\* C5: the loop variable v of a loop block is resolved to the bare name v by
\* every descendant of the loop, at every depth, in each of its parameters
\* that is not symbol-defining and whose trimmed value is v.
C5_LoopVariableInBody ==
  Done =>
    LET F == Order
    IN \A L \in 1..Len(F) : \A v \in LoopVariables(F, L) :
         \A m \in Desc(F, L) :
           Resolved(F, m) =>
             \A pd \in NotSymbolDefining(F, m) :
               HasValue(F, m, pd, v) => BareIn(F, m, pd, v)

\* A block two levels below a loop refers to the loop variable.
C5_Witness ==
  /\ Done
  /\ LET F == Order
     IN \E L \in 1..Len(F) : \E v \in LoopVariables(F, L) :
          \E m \in Desc(F, L) :
            /\ F[m].depth >= F[L].depth + 2
            /\ Resolved(F, m)
            /\ \E pd \in LookedUp(F, m) :
                 HasValue(F, m, pd, v) /\ EntryOf(F, m).params[pd.id] = v

\* --------------------------------------------------- the lines, for the claims
\* The places in the returned lines of the lines pushed for block k.
LinePos(F, k) ==
  {j \in 1..Len(run.lines) : run.lines[j].by = F[k].block.instanceId}

LinesOfKind(F, k, kind) == {j \in LinePos(F, k) : run.lines[j].kind = kind}

\* d repetitions of the four-space unit
Units(d) == [j \in 1..d |-> "    "]

\* The comment that reports the failure of block k, at depth d.
ErrorComment(F, k, d) ==
  Units(d) \o <<"# Error generating code for block ", DefAt(F, k).name,
                " (ID: ", F[k].block.instanceId, ")">>

\* What the template of block k makes of the parameters the block resolved.
Generated(F, k) == codeTemplate(DefAt(F, k), EntryOf(F, k).params)

\* The template of block k ran and threw.
TemplateThrew(F, k) == Resolved(F, k) /\ Generated(F, k).threw

\* The template of block k ran and returned.
TemplateSucceeded(F, k) == Resolved(F, k) /\ ~Generated(F, k).threw

LaterSiblings(F, k) ==
  {m \in 1..Len(F) : F[m].parent = F[k].parent /\ m > k}

\* Every stored parameter value of every block of a known type is a string.
AllStrings(F) ==
  \A k \in 1..Len(F) :
    IsKnown(F, k) =>
      \A pd \in ParamDefs(F, k) : IsString(StoredValue(F[k].block.params, pd))

\* C6: generatePythonCode never throws: whatever the tree, malformed
\* parameter maps included, the call returns a string.
C6_NeverThrows == Done => ~run.threw

\* The one comment, and nothing else, stands for block k, and the later
\* siblings of k are compiled.
OneCommentFor(F, k) ==
  /\ Cardinality(LinePos(F, k)) = 1
  /\ \A j \in LinePos(F, k) :
       run.lines[j].text = ErrorComment(F, k, F[k].depth)
  /\ \A c \in Desc(F, k) : LinePos(F, c) = {}
  /\ \A m \in LaterSiblings(F, k) : IsKnown(F, m) => Resolved(F, m)

\* C7: a block whose template throws contributes exactly one line to the
\* output, the comment at the block's own indentation that names the display
\* name of its type and its instance id; no line of its template or of its
\* children is emitted, and its later siblings are compiled.
C7_TemplateErrorIsOneComment ==
  Done =>
    LET F == Order
    IN \A k \in 1..Len(F) : TemplateThrew(F, k) => OneCommentFor(F, k)

\* The same on the trees whose parameter values are all strings, where no
\* exception but that of a template is raised.
TemplateErrorIsOneCommentOnStrings ==
  Done =>
    LET F == Order
    IN AllStrings(F) =>
         \A k \in 1..Len(F) : TemplateThrew(F, k) => OneCommentFor(F, k)

\* A block whose template throws has children and a later sibling, and the
\* output holds its comment and the sibling's line.
TemplateErrorCase ==
  /\ Done
  /\ LET F == Order
     IN /\ AllStrings(F)
        /\ \E k \in 1..Len(F) :
             /\ TemplateThrew(F, k)
             /\ Desc(F, k) # {}
             /\ \E m \in LaterSiblings(F, k) : LinePos(F, m) # {}

\* The lines of block k are its template's lines followed directly by one
\* `pass` line a unit deeper, and its subtree has no other line.
TemplateThenPass(F, k) ==
  /\ LinesOfKind(F, k, "template") # {}
  /\ LinesOfKind(F, k, "error") = {}
  /\ Cardinality(LinesOfKind(F, k, "pass")) = 1
  /\ \A j \in LinesOfKind(F, k, "pass") :
       /\ run.lines[j].text = Units(F[k].depth + 1) \o <<"pass">>
       /\ j - 1 \in LinesOfKind(F, k, "template")
       /\ \A i \in LinesOfKind(F, k, "template") : i < j

\* C8: a nestable block with no children whose template succeeds produces,
\* directly after its own lines, exactly one line `pass` one unit deeper than
\* the block, and no other descendant line.
C8_EmptyBodyIsOnePass ==
  Done =>
    LET F == Order
    IN \A k \in 1..Len(F) :
         (/\ TemplateSucceeded(F, k)
          /\ DefAt(F, k).canHaveChildren
          /\ F[k].block.children = <<>>)
           => TemplateThenPass(F, k)

\* The same on the trees whose parameter values are all strings.
EmptyBodyIsOnePassOnStrings ==
  Done =>
    LET F == Order
    IN AllStrings(F) =>
         \A k \in 1..Len(F) :
           (/\ TemplateSucceeded(F, k)
            /\ DefAt(F, k).canHaveChildren
            /\ F[k].block.children = <<>>)
             => TemplateThenPass(F, k)

\* An empty loop inside a loop, with its `pass` line two units deep.
EmptyBodyCase ==
  /\ Done
  /\ LET F == Order
     IN /\ AllStrings(F)
        /\ \E k \in 1..Len(F) :
             /\ TemplateSucceeded(F, k)
             /\ DefAt(F, k).canHaveChildren
             /\ F[k].block.children = <<>>
             /\ F[k].depth = 1
             /\ LinesOfKind(F, k, "pass") # {}

\* The lines the template of block k returned.
GeneratedLines(F, k) ==
  LET ls == Split(Generated(F, k).text)
  IN {ls[j] : j \in 1..Len(ls)}

\* Line j of the output, pushed for block k, has the indentation of k's depth.
IndentedAsDepth(F, k, j) ==
  LET l == run.lines[j]
      d == F[k].depth
  IN /\ l.kind = "template" =>
          \E t \in GeneratedLines(F, k) : l.text = Units(d) \o t
     /\ l.kind = "pass" => l.text = Units(d + 1) \o <<"pass">>
     /\ l.kind = "error" => l.text = ErrorComment(F, k, d)

\* C9: every line of the output pushed for a block at nesting depth d is
\* made of exactly d four-space units followed by a line of the block's
\* template, or by the error comment; the block's `pass` line is made of
\* d + 1 units followed by `pass`.  The lines of a child thus carry one unit
\* more than those of its parent.
C9_IndentationMatchesDepth ==
  Done =>
    LET F == Order
    IN \A k \in 1..Len(F) : \A j \in LinePos(F, k) : IndentedAsDepth(F, k, j)

\* A template line two levels deep, with a `pass` line and an error comment
\* below the root level in the same output.
C9_Witness ==
  /\ Done
  /\ LET F == Order
     IN /\ \E k \in 1..Len(F) :
             F[k].depth = 2 /\ LinesOfKind(F, k, "template") # {}
        /\ \E k \in 1..Len(F) :
             /\ F[k].depth >= 1
             /\ LinesOfKind(F, k, "pass") \cup LinesOfKind(F, k, "error") # {}

\* The forest without the block of the given instance id and its subtree.
RECURSIVE Without(_, _)
Without(blocks, instanceId) ==
  IF blocks = <<>> THEN <<>>
  ELSE IF Head(blocks).instanceId = instanceId
    THEN Without(Tail(blocks), instanceId)
  ELSE <<[Head(blocks) EXCEPT
            !.children = Without(Head(blocks).children, instanceId)]>>
         \o Without(Tail(blocks), instanceId)

\* The instance id of the parent of block k ("" for a root block).
ParentId(F, k) ==
  IF F[k].parent = 0 THEN "" ELSE F[F[k].parent].block.instanceId

\* The lines of a call that were pushed for blocks, but for the `pass` line
\* of the given block.
LinesButPassOf(r, instanceId) ==
  SelectSeq(r.lines,
            LAMBDA l : l.by # "" /\ ~(l.kind = "pass" /\ l.by = instanceId))

\* The call on the forest without block k ends as the last call did: the
\* same lines for the blocks, the same resolutions against the same scopes.
\* The `pass` line of the parent of k, which depends on the number of its
\* children, is left out of the comparison.
AsIfAbsent(F, k) ==
  LET alone == generatePythonCode(Without(canvasBlocks, F[k].block.instanceId),
                                  Registry)
  IN /\ alone.threw = run.threw
     /\ LinesButPassOf(alone, ParentId(F, k))
          = LinesButPassOf(run, ParentId(F, k))
     /\ alone.log = run.log

\* C11: a block whose type is not in the registry is skipped: no line is
\* pushed for it or for its children, its parameters are not resolved, and
\* the other blocks are compiled, against the same scopes, as they are when
\* the block is not in the tree.
C11_UnknownTypeIsSkipped ==
  Done =>
    LET F == Order
    IN \A k \in 1..Len(F) :
         ~IsKnown(F, k) =>
           /\ LinePos(F, k) = {}
           /\ Entries(F, k) = {}
           /\ \A c \in Desc(F, k) : LinePos(F, c) = {} /\ Entries(F, c) = {}
           /\ AsIfAbsent(F, k)

\* A block of unknown type with a child, followed by a sibling that emits
\* its line.
C11_Witness ==
  /\ Done
  /\ LET F == Order
     IN \E k \in 1..Len(F) :
          /\ ~IsKnown(F, k)
          /\ Desc(F, k) # {}
          /\ \E m \in LaterSiblings(F, k) : LinePos(F, m) # {}

PlaceholderText == <<"# Drag and drop blocks to generate Python code.">>

\* C12: for the empty root list the call returns the one-line placeholder
\* comment, without the header, and it returns the placeholder for no other
\* tree.
C12_PlaceholderIffEmpty ==
  Done =>
    /\ canvasBlocks = <<>> => ~run.threw /\ generatedCode = PlaceholderText
    /\ (~run.threw /\ generatedCode = PlaceholderText) => canvasBlocks = <<>>

\* The call on the empty canvas has returned the placeholder.
C12_Witness ==
  Done /\ canvasBlocks = <<>> /\ generatedCode = PlaceholderText

\* The banner, the dependency notice and the blank line, joined and followed
\* by nothing yet: three lines, each ended by a line break, then the empty
\* line.
HeaderText ==
  <<"# Visual Script Generated Code", NL,
    "# Note: Some blocks might require specific libraries (e.g., requests, pyautogui, pandas, selenium).",
    NL,
    "# Make sure to install them using pip: pip install requests pyautogui pandas selenium webdriver-manager",
    NL>>

\* Each line, preceded by a line break.
RECURSIVE EachOnNewLine(_)
EachOnNewLine(ls) ==
  IF ls = <<>> THEN <<>>
  ELSE <<NL>> \o Head(ls).text \o EachOnNewLine(Tail(ls))

\* The lines the compiler returns for the root list.
CompiledBody == generateCodeRecursive(canvasBlocks, Registry, 0, {}).lines

\* C13: for a non-empty root list the returned text is the fixed header (the
\* banner, the dependency notice, a blank line) followed by the compiled
\* lines of the body, joined by single line breaks; the header is the same
\* for every tree.
C13_HeaderThenBody ==
  (Done /\ canvasBlocks # <<>> /\ ~run.threw) =>
    generatedCode = HeaderText \o EachOnNewLine(CompiledBody)

\* A call has returned the header followed by a body of several lines.
C13_Witness ==
  /\ Done /\ canvasBlocks # <<>> /\ ~run.threw
  /\ Len(CompiledBody) >= 3
  /\ generatedCode # <<>>

\* The number of resolutions the last call made for block k.
TimesResolved(F, k) ==
  Cardinality({j \in 1..Len(run.log) :
                 run.log[j].block = F[k].block.instanceId})

\* C16: the call ends, by a return or by an exception, after resolving each
\* block of the tree at most once: the resolutions it made are no more than
\* the blocks of the tree.
C16_EachBlockAtMostOnce ==
  Done =>
    LET F == Order
    IN /\ \A k \in 1..Len(F) : TimesResolved(F, k) <= 1
       /\ Len(run.log) <= Len(F)
       /\ \A j \in 1..Len(run.log) :
            \E k \in 1..Len(F) : run.log[j].block = F[k].block.instanceId

\* A call on a tree three levels deep has resolved each of its blocks once.
C16_Witness ==
  /\ Done
  /\ LET F == Order
     IN /\ \E k \in 1..Len(F) : F[k].depth = 2
        /\ \A k \in 1..Len(F) : TimesResolved(F, k) = 1

\* ------------------------------------------------ the resolver, for the claims
\* The call of _processBlockParams has returned a map.
HasReturned == processed.done /\ ~processed.threw

\* The value stored for the parameter the call is made for, and its text in
\* the returned map.
Stored == StoredValue(resolving.rawParams, resolving.paramDef)
ResolvedText == processed.params[resolving.paramDef.id]

SymbolDefiningIds ==
  {"variableName", "loopVariable", "responseVariable", "outputVar",
   "dataFrameVariable", "driverVariable", "elementVariable", "textVariable"}

\* The parameter is treated by one of the rules keyed by block type.
HasOverride(blockDefinition, paramDef) ==
  \/ blockDefinition.id = "custom_function" /\ paramDef.id = "args"
  \/ blockDefinition.id = "pyautogui_click"
       /\ paramDef.id \in {"x_coord", "y_coord"}
  \/ blockDefinition.id = "pyautogui_screenshot" /\ paramDef.id = "filename"
  \/ blockDefinition.id = "define_variable" /\ paramDef.id = "value"
  \/ blockDefinition.id = "http_request" /\ paramDef.id = "body"

\* The parameter the call is made for falls under the generic rule of its kind.
UnderGenericRule ==
  /\ resolving.paramDef.id \notin SymbolDefiningIds
  /\ ~HasOverride(resolving.blockDefinition, resolving.paramDef)

\* C17: a free-text, masked or single-choice parameter under the generic
\* rule resolves to its trimmed value, bare, if and only if the trimmed value
\* is a name of the scope, and to the double-quoted escaped literal of the
\* trimmed value otherwise.
C17_GenericRuleBareIffInScope ==
  (/\ HasReturned
   /\ UnderGenericRule
   /\ resolving.paramDef.type \in {"string", "password", "select"}
   /\ IsString(Stored))
    => /\ ResolvedText = Trim(Stored) <=> Trim(Stored) \in resolving.definedVariables
       /\ Trim(Stored) \notin resolving.definedVariables
            => ResolvedText = formatPythonStringLiteral(Trim(Stored))

\* A masked parameter whose value, once trimmed, is a name of the scope is
\* resolved to the bare name.
C17_Witness ==
  /\ HasReturned
  /\ UnderGenericRule
  /\ resolving.paramDef.type = "password"
  /\ Stored = <<SP, "x", SP>>
  /\ resolving.definedVariables = {<<"x">>}
  /\ ResolvedText = <<"x">>

\* C18: a symbol-defining parameter resolves to its trimmed value as it is,
\* whatever the block type, the kind and the scope.
C18_SymbolDefiningVerbatim ==
  (HasReturned /\ resolving.paramDef.id \in SymbolDefiningIds)
    => ResolvedText = IF IsString(Stored) THEN Trim(Stored) ELSE Stored

\* A loop variable holding a quote, not a name of the scope, is resolved to
\* itself.
C18_Witness ==
  /\ HasReturned
  /\ resolving.paramDef.id = "loopVariable"
  /\ Stored = <<"a", DQ, "b">>
  /\ resolving.definedVariables = {}
  /\ ResolvedText = <<"a", DQ, "b">>

\* The parameter the call is made for is of the numeric kind under the
\* generic rule, or the value of a define_variable.
NumericRule ==
  \/ UnderGenericRule /\ resolving.paramDef.type = "number"
  \/ resolving.blockDefinition.id = "define_variable"
       /\ resolving.paramDef.id = "value"

\* The values of ResolverValues, trimmed, that Number() reads as a finite
\* number.
FiniteNumbers == {<<"5">>}

\* C19: a numeric-kind parameter, or the value of a define_variable, whose
\* trimmed value is not a name of the scope resolves to the value as it is
\* when it is a number and to its double-quoted literal otherwise;
\* define_variable with the name x and the value 5 emits `x = 5`.
C19_NumberBareElseQuoted ==
  (/\ HasReturned
   /\ NumericRule
   /\ IsString(Stored)
   /\ Trim(Stored) \notin resolving.definedVariables)
    => /\ ResolvedText = IF Trim(Stored) \in FiniteNumbers
                        THEN Trim(Stored)
                        ELSE formatPythonStringLiteral(Trim(Stored))
       /\ (/\ resolving.blockDefinition.id = "define_variable"
           /\ resolving.rawParams = [variableName |-> <<"x">>, value |-> <<"5">>])
            => codeTemplate(resolving.blockDefinition, processed.params).text
                 = <<"x", " = ", "5">>

\* define_variable with the name x and the value 5 was resolved, 5 not being
\* a name of the scope.
C19_Witness ==
  /\ HasReturned
  /\ resolving.blockDefinition.id = "define_variable"
  /\ resolving.rawParams = [variableName |-> <<"x">>, value |-> <<"5">>]
  /\ resolving.definedVariables = {<<"x">>}
  /\ ResolvedText = <<"5">>

\* The method selected for the http_request at hand, in capitals.
SelectedMethod ==
  ToUpperCase(StoredValue(resolving.rawParams,
                          FindParam(resolving.blockDefinition, "method")))

CarriesBody == SelectedMethod \in {<<"POST">>, <<"PUT">>, <<"PATCH">>}

\* The text is a triple-quoted literal.
IsMultilineLiteral(t) ==
  /\ Len(t) >= 6
  /\ SubSeq(t, 1, 3) = <<DQ, DQ, DQ>>
  /\ SubSeq(t, Len(t) - 2, Len(t)) = <<DQ, DQ, DQ>>

\* The call is made for the body of an http_request and has returned.
ForHttpBody ==
  /\ HasReturned
  /\ resolving.blockDefinition.id = "http_request"
  /\ resolving.paramDef.id = "body"

\* C20: the body of an http_request resolves to a multi-line literal only
\* when the method is POST, PUT or PATCH, and to None for every other method,
\* whatever the body and the scope.
C20_BodyNoneUnlessBodyMethod ==
  ForHttpBody =>
    /\ IsMultilineLiteral(ResolvedText) => CarriesBody
    /\ ~CarriesBody => ResolvedText = <<"None">>

\* The same for the bodies that are not a name of the scope: the lookup in
\* the scope comes first.
BodyNoneUnlessBodyMethodOrInScope ==
  (ForHttpBody /\ IsString(Stored)
     /\ Trim(Stored) \notin resolving.definedVariables)
    => /\ IsMultilineLiteral(ResolvedText) => CarriesBody
       /\ ~CarriesBody => ResolvedText = <<"None">>

\* A GET request whose body is a name of the scope: the body is the name.
BodyOfGetInScope ==
  /\ ForHttpBody
  /\ SelectedMethod = <<"GET">>
  /\ Trim(Stored) \in resolving.definedVariables
  /\ ResolvedText = Trim(Stored)

\* Undoing formatPythonStringLiteral's escapes, left to right: \\ is a
\* backslash, \" a quote, \n a line break.
RECURSIVE Unescape(_)
Unescape(t) ==
  IF t = <<>> THEN <<>>
  ELSE IF Len(t) >= 2 /\ t[1] = BS /\ t[2] = BS
    THEN <<BS>> \o Unescape(SubSeq(t, 3, Len(t)))
  ELSE IF Len(t) >= 2 /\ t[1] = BS /\ t[2] = DQ
    THEN <<DQ>> \o Unescape(SubSeq(t, 3, Len(t)))
  ELSE IF Len(t) >= 2 /\ t[1] = BS /\ t[2] = "n"
    THEN <<NL>> \o Unescape(SubSeq(t, 3, Len(t)))
  ELSE <<Head(t)>> \o Unescape(Tail(t))

\* Undoing formatPythonMultilineStringLiteral's escapes: \\ is a backslash,
\* \""" three quotes.
RECURSIVE UnescapeMultiline(_)
UnescapeMultiline(t) ==
  IF t = <<>> THEN <<>>
  ELSE IF Len(t) >= 2 /\ t[1] = BS /\ t[2] = BS
    THEN <<BS>> \o UnescapeMultiline(SubSeq(t, 3, Len(t)))
  ELSE IF Len(t) >= 4 /\ SubSeq(t, 1, 4) = <<BS, DQ, DQ, DQ>>
    THEN <<DQ, DQ, DQ>> \o UnescapeMultiline(SubSeq(t, 5, Len(t)))
  ELSE <<Head(t)>> \o UnescapeMultiline(Tail(t))

\* The value a literal stands for: the quoting removed, the escapes undone.
Unquote(type, t) ==
  IF type = "textarea"
    THEN UnescapeMultiline(SubSeq(t, 4, Len(t) - 3))
    ELSE Unescape(SubSeq(t, 2, Len(t) - 1))

\* The call is made for a free-text, masked, single-choice or multi-line
\* parameter under the generic rule, with a value that is not a name of the
\* scope, and has returned.
ForLiteral ==
  /\ HasReturned
  /\ UnderGenericRule
  /\ resolving.paramDef.type \in {"string", "password", "select", "textarea"}
  /\ IsString(Stored)
  /\ Trim(Stored) \notin resolving.definedVariables

\* C14: for a free-text, masked, single-choice or multi-line parameter whose
\* value is not a name of the scope, removing the quoting of the resolved
\* literal and undoing its escapes gives back the value that was stored.
C14_LiteralRoundTrip ==
  ForLiteral => Unquote(resolving.paramDef.type, ResolvedText) = Stored

\* What the round trip gives back is the trimmed value.
LiteralRoundTripTrimmed ==
  ForLiteral => Unquote(resolving.paramDef.type, ResolvedText) = Trim(Stored)

\* A multi-line value with a line break before its text was resolved.
LiteralOfUntrimmedMultiline ==
  /\ ForLiteral
  /\ resolving.paramDef.type = "textarea"
  /\ Stored = <<NL, "x">>
  /\ ResolvedText = <<DQ, DQ, DQ, "x", DQ, DQ, DQ>>

\* ---------------------------------------------------- the page, for the claims
\* The last call was made on the tree the page holds.
UpToDate == calls >= 1 /\ ~stale

ForArgs ==
  /\ resolving.called
  /\ resolving.blockDefinition.id = "custom_function"
  /\ resolving.paramDef.id = "args"

\* What the block holds for args: the stored value, or the empty string of
\* the schema when nothing is stored.
StoredArgs ==
  IF "args" \in DOMAIN resolving.rawParams
    THEN resolving.rawParams["args"]
    ELSE <<>>

\* C21: the args parameter of a custom_function block reaches the template
\* exactly as stored (the schema default when absent): not trimmed, not
\* quoted, not escaped, not looked up in scope.
C21_ArgsPassedAsStored ==
  (ForArgs /\ HasReturned) => processed.params["args"] = StoredArgs

\* The arguments " x " with surrounding blanks, x a name in scope, have been
\* resolved and are passed with their blanks.
C21_Witness ==
  /\ ForArgs
  /\ HasReturned
  /\ StoredArgs = <<SP, "x", SP>>
  /\ <<"x">> \in resolving.definedVariables
  /\ processed.params["args"] = <<SP, "x", SP>>

\* --------------------------------------------------------- document order
\* The place of the block of the given instance id in the document order
\* (parents before their children, siblings in the order of their list).
PlaceOf(F, instanceId) ==
  CHOOSE k \in 1..Len(F) : F[k].block.instanceId = instanceId

\* The lines of the body: those pushed for a block.
BodyLines == {j \in 1..Len(run.lines) : run.lines[j].kind # "header"}

\* C22: the lines of the output are in document order.  Of two lines, the
\* earlier one was pushed for the same block or for a block that comes
\* earlier in the document order: all lines of a block and of its descendants
\* come before all lines of its next sibling, and the lines of a nestable
\* block come before the lines of its descendants.
C22_LinesInDocumentOrder ==
  (Done /\ ~run.threw) =>
    LET F == Order
    IN \A a \in BodyLines : \A b \in BodyLines :
         a < b => PlaceOf(F, run.lines[a].by) <= PlaceOf(F, run.lines[b].by)

\* A nestable block with a line of its own, a child with a line and a next
\* sibling with a line, found in that order in the output.
C22_Witness ==
  /\ Done
  /\ ~run.threw
  /\ LET F == Order
     IN /\ Len(F) = 3
        /\ F[2].parent = 1
        /\ F[3].parent = 0
        /\ \E a \in LinesOfKind(F, 1, "template") :
             \E b \in LinePos(F, 2) :
               \E c \in LinePos(F, 3) : a < b /\ b < c

\* ------------------------------------------------- the body of a header
\* The header of block k in the output: the last line of its template.
HeaderLineOf(F, k) ==
  {j \in LinesOfKind(F, k, "template") :
     \A i \in LinesOfKind(F, k, "template") : i <= j}

\* Line j of the output starts with d + 1 four-space units: it is indented
\* at least one unit deeper than a line of depth d.
DeeperThan(j, d) ==
  /\ Len(run.lines[j].text) > d + 1
  /\ SubSeq(run.lines[j].text, 1, d + 1) = Units(d + 1)

\* Block k is of a type that can have children.
Nestable(F, k) == IsKnown(F, k) /\ DefAt(F, k).canHaveChildren

\* C27: in the generated body the header of a nestable block is followed by
\* a line indented one unit deeper: the body of a nestable block is never
\* empty, whatever its children are.
C27_HeaderHasBody ==
  (Done /\ ~run.threw) =>
    LET F == Order
    IN \A k \in 1..Len(F) :
         Nestable(F, k) =>
           \A j \in HeaderLineOf(F, k) :
             j + 1 <= Len(run.lines) /\ DeeperThan(j + 1, F[k].depth)

\* The case of C27: a nestable block whose children are all of an unknown
\* type has its header in the output, and no deeper line follows it.
HeaderWithoutBody ==
  /\ Done
  /\ ~run.threw
  /\ LET F == Order
     IN \E k \in 1..Len(F) :
          /\ Nestable(F, k)
          /\ Desc(F, k) # {}
          /\ \A c \in Desc(F, k) : ~IsKnown(F, c)
          /\ \E j \in HeaderLineOf(F, k) :
               j + 1 > Len(run.lines) \/ ~DeeperThan(j + 1, F[k].depth)

\* Apart from the children that leave no line (an unknown type, or a list
\* whose compilation throws), the header is followed by its body.
HeaderHasBodyWhenChildrenEmit ==
  (Done /\ ~run.threw /\ AllStrings(Order)) =>
    LET F == Order
    IN \A k \in 1..Len(F) :
         (Nestable(F, k) /\ \E c \in Desc(F, k) : F[c].parent = k /\ IsKnown(F, c)) =>
           \A j \in HeaderLineOf(F, k) :
             j + 1 <= Len(run.lines) /\ DeeperThan(j + 1, F[k].depth)

\* ------------------------------------------- the output of a failed block
\* C28: a block whose template throws, and which the comment line replaces,
\* introduces no symbol: a later block of its level, or a descendant of one,
\* with a looked-up parameter whose trimmed value is the name the failed
\* block declares as its output does not resolve it to the bare name, unless
\* another block in scope introduces the name.
C28_FailedBlockIntroducesNothing ==
  (Done /\ ~run.threw) =>
    LET F == Order
    IN \A N \in 1..Len(F) :
         TemplateThrew(F, N) =>
           \A s \in UsableOutputs(F, N) : \A m \in After(F, N) :
             (Resolved(F, m) /\ RefersTo(F, m, s))
               => IntroducedFor(F, m, s, {N})

\* The case of C28: after a block whose template threw, a later sibling
\* resolves the name of the failed block's output, which nothing else
\* introduces, to the bare name.
FailedBlockOutputInScope ==
  /\ Done
  /\ ~run.threw
  /\ LET F == Order
     IN \E N \in 1..Len(F) : \E s \in UsableOutputs(F, N) :
          \E m \in After(F, N) :
            /\ TemplateThrew(F, N)
            /\ LinesOfKind(F, N, "error") # {}
            /\ Resolved(F, m)
            /\ F[m].parent = F[N].parent
            /\ RefersTo(F, m, s)
            /\ ~IntroducedFor(F, m, s, {N})

\* --------------------------------------- a block's own output and its parameters
\* C29: the parameters of a block are resolved against the scope as it was
\* before the block: a looked-up string parameter whose trimmed value is the
\* name the block itself declares as its output, and which no earlier block
\* or enclosing loop introduces, resolves to the quoted literal, not to the
\* bare name.
C29_OwnOutputNotVisibleToOwnParameters ==
  Done =>
    LET F == Order
    IN \A k \in 1..Len(F) :
         Resolved(F, k) =>
           /\ \A s \in UsableOutputs(F, k) :
                s \in EntryOf(F, k).scope => IntroducedFor(F, k, s, {})
           /\ \A s \in UsableOutputs(F, k) \ FiniteNumbers :
                \A pd \in LookedUp(F, k) :
                  (/\ pd.type = "string"
                   /\ HasValue(F, k, pd, s)
                   /\ ~IntroducedFor(F, k, s, {}))
                    => EntryOf(F, k).params[pd.id] = formatPythonStringLiteral(s)

\* define_variable with name x and value x, x not yet defined, has been
\* compiled to the line x = "x".
C29_Witness ==
  /\ Done
  /\ ~run.threw
  /\ LET F == Order
     IN \E k \in 1..Len(F) :
          /\ Resolved(F, k)
          /\ DefAt(F, k).id = "define_variable"
          /\ F[k].block.params = [variableName |-> <<"x">>, value |-> <<"x">>]
          /\ ~IntroducedFor(F, k, <<"x">>, {})
          /\ \E j \in LinesOfKind(F, k, "template") :
               run.lines[j].text
                 = Units(F[k].depth) \o <<"x", " = ", DQ, "x", DQ>>

\* ------------------------------------------------------- the empty name
\* The scopes of the last call: one for each resolution of a block.
ScopesOfRun == {run.log[j].scope : j \in 1..Len(run.log)}

\* Block k leaves a symbol-defining parameter empty.
LeavesNameEmpty(F, k) ==
  /\ IsKnown(F, k)
  /\ \E pd \in ParamDefs(F, k) :
       /\ pd.id \in directVariableNameParams
       /\ RawValue(F[k].block.params, pd) = <<>>

\* C30: the scope never contains the empty string.  A symbol-defining
\* parameter left empty introduces no symbol, and a looked-up parameter
\* whose trimmed value is empty is never resolved to the bare (empty) name.
C30_ScopeNeverHoldsEmptyName ==
  /\ \A scope \in ScopesOfRun : <<>> \notin scope
  /\ LET F == Order
     IN \A k \in 1..Len(F) :
          (Done /\ Resolved(F, k)) =>
            \A pd \in LookedUp(F, k) :
              HasValue(F, k, pd, <<>>) => EntryOf(F, k).params[pd.id] # <<>>

\* Inside a loop whose loopVariable is empty, a block whose parameter is
\* empty has been resolved: to the literal of the empty string; the tree
\* also holds a custom_function whose outputVar is left blank.
C30_Witness ==
  /\ Done
  /\ ~run.threw
  /\ LET F == Order
     IN \E L \in 1..Len(F) : \E m \in Desc(F, L) :
          /\ Resolved(F, L)
          /\ DefAt(F, L).id = "loop_range"
          /\ LeavesNameEmpty(F, L)
          /\ Resolved(F, m)
          /\ \E pd \in LookedUp(F, m) :
               /\ HasValue(F, m, pd, <<>>)
               /\ EntryOf(F, m).params[pd.id] = <<DQ, DQ>>
        /\ \E k \in 1..Len(F) :
             /\ Resolved(F, k)
             /\ DefAt(F, k).id = "custom_function"
             /\ LeavesNameEmpty(F, k)

\* ------------------------------------------------------ edits of the canvas
\* The tree the last handler was called on and the tree it left, in document
\* order.
TreeBefore == Flatten(event.before, 0, 0, 0)
TreeAfter == Flatten(canvasBlocks, 0, 0, 0)

IdsOf(F) == {F[k].block.instanceId : k \in 1..Len(F)}

\* Every block of the forest has an instance id of its own.
EachOnce(F) == Cardinality(IdsOf(F)) = Len(F)

\* The ids of the block of the given id and of its descendants.
SubtreeIds(F, instanceId) ==
  {F[k].block.instanceId :
     k \in {j \in 1..Len(F) :
              \/ F[j].block.instanceId = instanceId
              \/ \E a \in Anc(F, j) : F[a].block.instanceId = instanceId}}

\* What a block is apart from its children.
Own(block) ==
  [instanceId |-> block.instanceId, blockTypeId |-> block.blockTypeId,
   params |-> block.params, isCollapsed |-> block.isCollapsed]

\* The block of the given id is in both forests with the same parent, the
\* same type, parameters and collapse flag.
SamePlaceAndContent(FB, FA, instanceId) ==
  /\ ParentId(FA, PlaceOf(FA, instanceId)) = ParentId(FB, PlaceOf(FB, instanceId))
  /\ Own(FA[PlaceOf(FA, instanceId)].block) = Own(FB[PlaceOf(FB, instanceId)].block)

\* Two blocks of both forests come in the same order in both.
SameOrder(FB, FA, a, b) ==
  (PlaceOf(FB, a) < PlaceOf(FB, b)) <=> (PlaceOf(FA, a) < PlaceOf(FA, b))

\* C23: handleRemoveBlock(instanceId) removes that block together with its
\* subtree and nothing else.  Afterwards neither the block nor any of its
\* descendants is in the tree, and every other block is still there, once,
\* with the same parent, the same parameters and the same order among the
\* blocks that stay.
C23_RemovesSubtreeAndNothingElse ==
  event.op = "remove" =>
    LET FB == TreeBefore
        FA == TreeAfter
    IN /\ IdsOf(FA) = IdsOf(FB) \ SubtreeIds(FB, event.instanceId)
       /\ EachOnce(FA)
       /\ \A a \in IdsOf(FA) :
            /\ SamePlaceAndContent(FB, FA, a)
            /\ \A b \in IdsOf(FA) : SameOrder(FB, FA, a, b)

\* A nested block with a child of its own has been removed: its parent and
\* its earlier sibling are still there, its child is gone with it.
C23_Witness ==
  /\ event.op = "remove"
  /\ LET FB == TreeBefore
     IN \E k \in 1..Len(FB) :
          /\ FB[k].block.instanceId = event.instanceId
          /\ FB[k].parent # 0
          /\ Desc(FB, k) # {}
          /\ IdsOf(TreeAfter) = {FB[FB[k].parent].block.instanceId}

\* The type of the block is one of AVAILABLE_BLOCKS whose canHaveChildren
\* flag is set.
CanNest(block) ==
  \E k \in 1..Len(AVAILABLE_BLOCKS) :
    /\ AVAILABLE_BLOCKS[k].id = block.blockTypeId
    /\ AVAILABLE_BLOCKS[k].canHaveChildren

\* The last handler call was the drop of a new block of a type of
\* AVAILABLE_BLOCKS.
NewBlockDropped ==
  /\ event.op = "drop"
  /\ event.newBlockTypeId # NoId
  /\ \E k \in 1..Len(AVAILABLE_BLOCKS) :
       AVAILABLE_BLOCKS[k].id = event.newBlockTypeId

\* The drop named a child drop zone whose instance id is that of no block
\* of the tree that can have children.
OnZoneOfNoParent ==
  /\ event.parentDropZoneInstanceId # NoId
  /\ LET FB == TreeBefore
     IN \A k \in 1..Len(FB) :
          FB[k].block.instanceId = event.parentDropZoneInstanceId
            => ~CanNest(FB[k].block)

\* C24: a new block dropped on a child drop zone whose instance id matches
\* no block of the tree that can have children leaves the tree as it was:
\* the new block is discarded, it is not appended to the root list.
C24_DropOnNoParentLeavesTree ==
  (NewBlockDropped /\ OnZoneOfNoParent) => canvasBlocks = event.before

\* A new block was dropped on the drop zone of a block that is gone while
\* the canvas held a block, and the canvas is as it was.
C24_Witness ==
  /\ NewBlockDropped
  /\ OnZoneOfNoParent
  /\ event.parentDropZoneInstanceId = GhostId
  /\ event.before # <<>>
  /\ event.instanceId \notin IdsOf(TreeAfter)
  /\ canvasBlocks = event.before

\* C25: whatever new blocks were dropped, blocks moved, removed, changed or
\* collapsed since the empty canvas, every block with a non-empty child
\* list is of a type whose canHaveChildren flag is set.
C25_OnlyNestableBlocksHaveChildren ==
  LET F == TreeAfter
  IN \A k \in 1..Len(F) :
       Len(F[k].block.children) > 0 => CanNest(F[k].block)

\* A block that cannot have children was dropped on, then moved to, the
\* child drop zone of another such block, and has no child.
C25_Witness ==
  /\ event.op = "drop"
  /\ event.draggedInstanceId # NoId
  /\ LET F == TreeAfter
     IN /\ \E k \in 1..Len(F) :
             /\ F[k].block.instanceId = event.parentDropZoneInstanceId
             /\ ~CanNest(F[k].block)
             /\ F[k].block.children = <<>>
        /\ \E k \in 1..Len(F) : Len(F[k].block.children) > 0

\* The last handler call was the drop of a block of the canvas.
BlockMoved == event.op = "drop" /\ event.draggedInstanceId # NoId

\* C26: moving a block of the canvas never changes the set of block
\* instances of the tree: after the move every block that was in the tree
\* is in it, once, the dragged block and its descendants among them, also
\* when the drop target lies inside the subtree of the dragged block.
C26_MoveKeepsTheBlocks ==
  BlockMoved =>
    /\ IdsOf(TreeAfter) = IdsOf(TreeBefore)
    /\ EachOnce(TreeAfter)

\* The drop target lies in the subtree of the dragged block.
IntoOwnSubtree ==
  \/ event.parentDropZoneInstanceId
       \in SubtreeIds(TreeBefore, event.draggedInstanceId)
            \ {event.draggedInstanceId}
  \/ event.directDropOnBlockInstanceId
       \in SubtreeIds(TreeBefore, event.draggedInstanceId)
            \ {event.draggedInstanceId}

\* The case of C26: a block was dragged onto the child drop zone of one of
\* its descendants, and it is gone with its subtree.
MovedBlockLost ==
  /\ BlockMoved
  /\ event.parentDropZoneInstanceId
       \in SubtreeIds(TreeBefore, event.draggedInstanceId)
            \ {event.draggedInstanceId}
  /\ IdsOf(TreeAfter)
       = IdsOf(TreeBefore) \ SubtreeIds(TreeBefore, event.draggedInstanceId)

\* The drop zone of the move, if any, is that of a block of the tree that
\* can have children and is not a descendant of the dragged block.
ZoneOutsideOwnSubtree ==
  \/ event.parentDropZoneInstanceId \in {NoId, event.draggedInstanceId}
  \/ LET FB == TreeBefore
     IN \E k \in 1..Len(FB) :
          /\ FB[k].block.instanceId = event.parentDropZoneInstanceId
          /\ CanNest(FB[k].block)
          /\ FB[k].block.instanceId
               \notin SubtreeIds(FB, event.draggedInstanceId)

\* A move onto a card, or onto the drop zone of a block that can have
\* children and lies outside the subtree of the dragged block, keeps the
\* blocks.
MoveOutsideOwnSubtreeKeepsTheBlocks ==
  (BlockMoved /\ ZoneOutsideOwnSubtree)
    => /\ IdsOf(TreeAfter) = IdsOf(TreeBefore)
       /\ EachOnce(TreeAfter)

====
